---- MODULE Spec2Model ----
(***************************************************************************)
(* The conversational turn engine of the bot: the message dispatch of      *)
(* bot.py (per-channel lock), the turn orchestrator of cogs/chat.py        *)
(* (handle_mention, chat_command) and the model gateway of llm.py          *)
(* (_api_call under the process-wide lock, chat, chat_with_tool_results,   *)
(* generate_project_plan, generate_retro_summary).                         *)
(*                                                                         *)
(* Every asyncio task is one element of Tasks; an action is the code that  *)
(* runs between two suspension points (awaits) of one task.  The upstream  *)
(* model, the store and the transport are the environment: a transport     *)
(* request returns any response of UpstreamResponses or fails, a store     *)
(* call returns or raises.  Sends to the chat platform return.             *)
(***************************************************************************)
EXTENDS Integers, Sequences, FiniteSets, TLC

\* ------------------------------------------------------------------ bounds

\* most tool calls the upstream model puts into one response
MaxCalls == 1
\* the counters that only observe a turn (requests, transports) stop here
CounterCap == 8
\* the largest id a row of the tasks table gets
MaxTaskId == 2
\* the largest id a row of the ideas table gets
MaxIdeaId == 1
\* most tokens of a content the response parsing is exercised on
MaxContent == 5
\* most characters of a reply
MaxLength == 6001

\* ---------------------------------------------------------- program constants

max_tool_rounds == 5
\* get_recent_messages(..., limit=5)
limit == 5
\* the sanitized history keeps the last 4 messages
history_kept == 4
\* the most characters of one message
chunk_size == 2000
\* the retry of chat asks for min(max_tokens, 256)
retry_max_tokens == 256
\* the default of chat's and chat_with_tool_results' max_tokens
default_max_tokens == 12000

None == "None"

TooManySteps ==
    "I tried to complete your request but it required too many steps. Please try breaking it into smaller requests."
Fallback == "brrr... I didn't quite get that. Try asking in another way?"
\* the three texts below end with an emoji in the source, left out here
Blank == "brrr... my brain went blank! Try asking again?"
Apology == "brrr... something went wrong! Try again?"
CommandApology == "brrr... something went wrong!"
AckPrefix == "Got it, I'll remember that"

\* ------------------------------------------------------------- the tasks

\* the asyncio tasks: each handles one message that mentions the bot, or one
\* slash command (/chat, /project start, /week retro)
Tasks == {"t1", "t2"}

Channels == {"ch1", "ch2"}
Guild == "g1"
User == "u1"

\* the first task handles a mention in ch1; the second a mention in either
\* channel or a command issued in ch1
ChannelsOf(t) == IF t = "t1" THEN {"ch1"} ELSE Channels
CommandsOf(t) == IF t = "t1" THEN {} ELSE {"chat", "plan", "retro"}

\* message.content after the mention is removed and the text is trimmed
CleanedMessage(t) == "hi from " \o t

\* ------------------------------------------------------- text as token lists

(***************************************************************************)
(* A text is a sequence of tokens.  " " is whitespace, "~~~json" stands    *)
(* for the opening fence of a memory block (three backquotes and json),    *)
(* "~~~" for a bare fence (three backquotes); a token beginning with "{"   *)
(* is the body of a block; any other token is visible text.  A fixed       *)
(* message of the program is one token.                                    *)
(***************************************************************************)

RECURSIVE LStrip(_)
LStrip(s) == IF s # <<>> /\ Head(s) = " " THEN LStrip(Tail(s)) ELSE s

RECURSIVE RStrip(_)
RStrip(s) ==
    IF s # <<>> /\ s[Len(s)] = " " THEN RStrip(SubSeq(s, 1, Len(s) - 1)) ELSE s

\* str.strip()
Strip(s) == RStrip(LStrip(s))

\* not s.strip()
IsBlank(s) == Strip(s) = <<>>

\* the block bodies json.loads accepts, with the "memories" array each holds
\* (key, value or context None: the entry has no such field)
ValidJson ==
    [b \in {"{mem:name}", "{mem:city}", "{mem:nokey}"} |->
        IF b = "{mem:name}"
        THEN <<[key |-> "name", value |-> "Kyle", context |-> "intro"]>>
        ELSE IF b = "{mem:city}"
        THEN <<[key |-> "city", value |-> "Oslo", context |-> None]>>
        ELSE <<[key |-> None, value |-> "Oslo", context |-> None],
               [key |-> "lang", value |-> "python", context |-> None]>>]

\* the tokens in which the text "memories" (in quotes) occurs
MentionsMemories(tok) == tok \in DOMAIN ValidJson \/ tok = "{mem:broken"

\* the largest index of s whose token is in toks, 0 when there is none
LastIndexIn(s, toks, from) ==
    LET hits == {i \in from..Len(s) : s[i] \in toks}
    IN  IF hits = {} THEN 0 ELSE CHOOSE i \in hits : \A j \in hits : j <= i

\* an extraction that cuts the content at the block it could not parse
CutAnyway(content, json_start) ==
    [memories |-> <<>>, clean |-> Strip(SubSeq(content, 1, json_start - 1))]

\* the block has no closing fence, or `except (json.JSONDecodeError, ...): pass`:
\* no memories, and the content as it was
Untouched(content, json_start) == [memories |-> <<>>, clean |-> content]

\* the memory-block extraction shared by chat and chat_with_tool_results:
\* the last "~~~json" block is parsed; when it parses, its memories are taken
\* and the content is cut at the block's opening fence
ExtractMemories(content) ==
    LET json_start == LastIndexIn(content, {"~~~json"}, 1)
        json_end == LastIndexIn(content, {"~~~", "~~~json"}, json_start + 1)
        json_str == Strip(SubSeq(content, json_start + 1, json_end - 1))
    IN  IF ~ (   (\E i \in 1..Len(content) : content[i] = "~~~json")
              /\ (\E i \in 1..Len(content) : MentionsMemories(content[i])))
        THEN [memories |-> <<>>, clean |-> content]
        ELSE IF json_end = 0
        THEN Untouched(content, json_start)
        ELSE IF ~ (Len(json_str) = 1 /\ json_str[1] \in DOMAIN ValidJson)
        THEN Untouched(content, json_start)  \* json.loads raises JSONDecodeError
        ELSE [memories |-> ValidJson[json_str[1]],
              clean |-> Strip(SubSeq(content, 1, json_start - 1))]

\* ", ".join(keys[:5]) of the entries that have a key
RECURSIVE JoinKeys(_, _)
JoinKeys(mems, n) ==
    IF mems = <<>> \/ n = 0 THEN ""
    ELSE IF Head(mems).key = None THEN JoinKeys(Tail(mems), n)
    ELSE LET rest == JoinKeys(Tail(mems), n - 1)
         IN  IF rest = "" THEN Head(mems).key ELSE Head(mems).key \o ", " \o rest

\* the acknowledgement chat synthesizes for a response that is only a memory block
Acknowledgement(mems) ==
    LET key_list == JoinKeys(mems, 5)
    IN  IF key_list = "" THEN <<AckPrefix \o ".">>
        ELSE <<AckPrefix \o " (" \o key_list \o ").">>

\* a JSON null content: the one text that is no token list of the model's
Null == <<None>>

\* message_data.get("content", "") with None read as ""
ContentOf(data) == IF data.content = Null THEN <<>> ELSE data.content

\* message_data.get("tool_calls"): an absent field, null and [] are all false
\* where the loop tests them, and all are the empty list here
ToolCallsOf(data) == data.tool_calls

\* LLMClient.chat, from the first transport response to the test for a retry
ChatParsed(data) ==
    LET ex == ExtractMemories(ContentOf(data))
        clean == IF IsBlank(ex.clean) /\ ex.memories # <<>>
                 THEN Acknowledgement(ex.memories) ELSE ex.clean
    IN  [content |-> clean, memories_to_save |-> ex.memories,
         tool_calls |-> ToolCallsOf(data)]

\* a gateway that retries every empty response
RetryWheneverBlank(data) == IsBlank(ChatParsed(data).content)

\* the empty, length-limited response that chat retries
NeedsRetry(data) == IsBlank(ChatParsed(data).content) /\ data.finish_reason = "length"

\* a gateway with no last resort
NoFallback(resp) == resp

\* the last resort of chat and chat_with_tool_results: never an empty content
OrFallback(resp) ==
    IF IsBlank(resp.content) THEN [resp EXCEPT !.content = <<Fallback>>] ELSE resp

\* LLMClient.chat's result when no retry is made
ChatResult(data) == OrFallback(ChatParsed(data))

\* LLMClient.chat's result after the retry returned retry_data
RetryResult(first, retry_data) ==
    LET retry_content == ContentOf(retry_data)
    IN  OrFallback(IF ~ IsBlank(retry_content)
                   THEN [first EXCEPT !.content = Strip(retry_content)]
                   ELSE first)

\* LLMClient.chat's result after the retry's transport request failed: the
\* exception is logged and passed over
RetryFailedResult(first) == OrFallback(first)

\* LLMClient.chat_with_tool_results, from the transport response on
ToolResultsResponse(data) ==
    LET ex == ExtractMemories(ContentOf(data))
    IN  OrFallback([content |-> ex.clean, memories_to_save |-> ex.memories,
                    tool_calls |-> ToolCallsOf(data)])

\* ------------------------------------------------- the transport requests

\* the payload of a transport request: the model asked, the messages, the
\* token budget, and whether "tools" and "tool_choice" are in it
Payload(model, messages, max_tokens, tools) ==
    [model |-> model, messages |-> messages, max_tokens |-> max_tokens, tools |-> tools]

\* the system message (the prompt _build_system_prompt makes of the memories,
\* the user's name, the persona and the history) and the user message
SystemMessage(system_prompt) == [role |-> "system", content |-> system_prompt]
UserMessage(user_message) == [role |-> "user", content |-> user_message]

\* the payload of LLMClient.chat's request
ChatPayload(system_prompt, user_message, max_tokens, tools) ==
    Payload("self.model",
            <<SystemMessage(system_prompt), UserMessage(user_message)>>,
            max_tokens, tools)

\* `for m in reversed(messages): if m.get("role") == "user"`
LastUserMessage(messages) ==
    messages[CHOOSE i \in DOMAIN messages :
                /\ messages[i].role = "user"
                /\ \A j \in DOMAIN messages : messages[j].role = "user" => j <= i]

Min(a, b) == IF a < b THEN a ELSE b

\* a retry that sends the first request again
SamePayload(first) == first

\* the payload of the retry, from the payload of the first request
RetryPayload(first) ==
    Payload("openai/gpt-4o-mini",
            <<first.messages[1], LastUserMessage(first.messages)>>,
            Min(first.max_tokens, retry_max_tokens), FALSE)

\* the assistant message and the tool messages chat_with_tool_results adds
AssistantMessage(assistant_tool_calls) ==
    [role |-> "assistant", content |-> "", tool_calls |-> assistant_tool_calls]

\* a tool message that does not say which call it answers
ToolMessageWithoutId(tr) ==
    [role |-> "tool", tool_call_id |-> None, name |-> tr.name, content |-> tr.result]

\* `{"role": "tool", "tool_call_id": ..., "name": ..., "content": ...}`
ToolMessage(tr) ==
    [role |-> "tool", tool_call_id |-> tr.tool_call_id, name |-> tr.name,
     content |-> tr.result]

\* the payload of LLMClient.chat_with_tool_results' request
ToolResultsPayload(system_prompt, user_message, assistant_tool_calls, tool_results, max_tokens, tools) ==
    Payload("self.model",
            <<SystemMessage(system_prompt), UserMessage(user_message),
              AssistantMessage(assistant_tool_calls)>>
                \o [i \in DOMAIN tool_results |-> ToolMessage(tool_results[i])],
            max_tokens, tools)

\* ------------------------------------------------------ the upstream model

\* function.arguments of a tool call: JSON text, text that is no JSON, or no
\* text at all (None)
ArgumentTexts == {"{}", "{oops", None}

ToolCall(i, a) ==
    [id |-> "call_" \o ToString(i), name |-> "get_projects", arguments |-> a]

ToolCallLists ==
    UNION {[1..n -> ArgumentTexts] : n \in 1..MaxCalls}

\* what the message of one transport response can hold: text, null, a memory
\* block; with or without tool calls
Upstream(content, tool_calls, finish_reason) ==
    [content |-> content, tool_calls |-> tool_calls, finish_reason |-> finish_reason]

CallLists == {[i \in DOMAIN l |-> ToolCall(i, l[i])] : l \in ToolCallLists}

\* what one transport request can return
UpstreamResponses ==
    {Upstream(<<"hi">>, <<>>, "stop"),
     Upstream(Null, <<>>, "stop"),
     Upstream(Null, <<>>, "length"),
     Upstream(<<"~~~json", "{mem:name}", "~~~">>, <<>>, "stop"),
     Upstream(<<"ok", "~~~json", "{mem:nokey}", "~~~">>, <<>>, "stop")}
    \cup {Upstream(<<"hi">>, calls, "stop") : calls \in CallLists}
    \cup {Upstream(Null, <<ToolCall(1, "{}")>>, "length")}

\* ------------------------------------------------------------------ state

VARIABLES
    pc,              \* where each task stands
    kind,            \* "mention", "chat" (/chat), "plan" or "retro"
    chan,            \* message.channel.id of the task's message
    channel_locks,   \* BrrrBot._channel_locks: the holder of each channel's lock
    api_lock,        \* LLMClient._api_lock: its holder
    in_flight,       \* the tasks whose session.post is awaiting the endpoint
    op,              \* the transport request a task makes: chat, cwtr, retry, plan, retro
    response,        \* handle_mention's and chat_command's response (chat's partial
                     \* result while its retry is out)
    tool_round,      \* handle_mention's tool_round
    history,         \* conversation_history, per (user, guild, channel), in insert order
    user_memories,   \* the rows of the user_memories table
    mem_index,       \* entries of response.memories_to_save already saved
    sent,            \* what each task sent to the user, in order
    requests,        \* gateway operations the task's turn has called (observer)
    gateway,         \* how the task's latest gateway operation ended (observer)
    transport_failed,\* a transport request of that operation failed (observer)
    raised_at,       \* the step of the turn that raised, or None (observer)
    unit             \* the fields of the component that is exercised on its own

\* the state of the turn engine
turn_vars == <<pc, kind, chan, channel_locks, api_lock, in_flight, op, response,
               tool_round, history, mem_index, sent, requests,
               gateway, transport_failed, raised_at>>

\* the rows of the projects table
projects == unit.projects

\* the rows of the tasks table
tasks == unit.tasks

\* the rows of the ideas table
ideas == unit.ideas

\* sqlite_sequence of the tasks table: the largest id given
task_seq == unit.task_seq

\* sqlite_sequence of the ideas table: the largest id given
idea_seq == unit.idea_seq

\* the latest execute_tool call and how it ended (observer)
tool_result == unit.tool_result

\* handle_mention's raw_history: what get_recent_messages returned
raw_history == unit.raw_history

\* handle_mention's history once the sanitizer has run
sanitized == unit.sanitized

\* a call of chat or chat_with_tool_results: what the transport answers
llm_call == unit.llm_call

\* the LLMResponse that call returned
llm_response == unit.llm_response

\* what the latest write left for each (user, guild, key) (observer)
last_write == unit.last_write

\* the latest call of the memory store (observer)
last_op == unit.last_op

\* len(reply_content) of the reply handle_mention sends
reply_len == unit.reply_len

\* the messages sent for that reply, in order
outbox == unit.outbox

\* "sending" until the last message of the reply is out
replying == unit.replying

\* handle_mention's memories, custom_instructions and history: what
\* get_all_memories and get_recent_messages returned and the sanitizer kept
turn_context == unit.context

\* the calls of current_tool_calls the for loop has been through
next_call == unit.next_call

\* handle_mention's current_tool_results
current_tool_results == unit.current_tool_results

\* every execute_tool call of the turn, in order, with its round (observer)
executed == unit.executed

\* the payload of every request chat and chat_with_tool_results made for the
\* turn, in order (observer)
gateway_calls == unit.gateway_calls

\* every LLMResponse the gateway returned to the turn, in order (observer)
answers == unit.answers

vars == <<turn_vars, user_memories, unit>>

Scopes == {<<User, Guild, c>> : c \in Channels}
Scope(t) == <<User, Guild, chan[t]>>

NoResponse == [content |-> <<>>, memories_to_save |-> <<>>, tool_calls |-> <<>>]

\* ------------------------------------------------------- the tool executor

(***************************************************************************)
(* ToolExecutor over the projects, tasks and ideas tables.  A row keeps    *)
(* the columns the tools read: a project its id, guild_id, title and       *)
(* status; a task its id, project_id, label and is_done; an idea its id,   *)
(* guild_id and title.  An id argument of 0 stands for an argument that is *)
(* absent or 0 (`not project_id`), a label of "" for an absent or empty    *)
(* label, a title of None for an absent title.  A result text is the list  *)
(* of its lines.                                                           *)
(***************************************************************************)

Guilds == {"g1", "g2"}

\* the ids a tool call can name: absent (0), of a row, of no row
ArgIds == 0..MaxTaskId

Labels == {"", "write tests"}

\* the names execute_tool is called with: tools of the registry that take an
\* id, a tool scoped by the caller's guild, and a name outside the registry
ToolNames == {"get_projects", "get_project_info", "archive_project", "create_task",
              "get_tasks", "toggle_task", "delete_task", "add_idea", "delete_idea",
              "no_such_tool"}

\* Database.get_project, get_task, get_idea: SELECT ... WHERE id = ?
get_project(project_id) == {p \in projects : p.id = project_id}
get_task(task_id) == {k \in tasks : k.id = task_id}
get_idea(idea_id) == {i \in ideas : i.id = idea_id}

\* the rows of a set in the order of their ids (the order of their creation)
RECURSIVE ById(_)
ById(rows) ==
    IF rows = {} THEN <<>>
    ELSE LET first == CHOOSE r \in rows : \A q \in rows : r.id <= q.id
         IN  <<first>> \o ById(rows \ {first})

\* Database.get_project_tasks: SELECT ... WHERE project_id = ? ORDER BY created_at
get_project_tasks(project_id) == ById({k \in tasks : k.project_id = project_id})

\* Database.get_guild_projects with no status filter
get_guild_projects(guild_id) == ById({p \in projects : p.guild_id = guild_id})

\* Database.archive_project: UPDATE projects SET status = 'archived' WHERE id = ?
archive_project(project_id) ==
    {IF p.id = project_id THEN [p EXCEPT !.status = "archived"] ELSE p : p \in projects}

\* Database.toggle_task: UPDATE tasks SET is_done = NOT is_done WHERE id = ?
toggle_task(task_id) ==
    {IF k.id = task_id THEN [k EXCEPT !.is_done = ~ @] ELSE k : k \in tasks}

\* Database.delete_task, delete_idea: DELETE ... WHERE id = ?
delete_task(task_id) == {k \in tasks : k.id # task_id}
delete_idea(idea_id) == {i \in ideas : i.id # idea_id}

TaskLine(k) ==
    (IF k.is_done THEN "done" ELSE "open") \o " [" \o ToString(k.id) \o "] " \o k.label

RECURSIVE TaskLines(_)
TaskLines(ks) == IF ks = <<>> THEN <<>> ELSE <<TaskLine(Head(ks))>> \o TaskLines(Tail(ks))

RECURSIVE ProjectLines(_)
ProjectLines(ps) ==
    IF ps = <<>> THEN <<>>
    ELSE <<"ID: " \o ToString(Head(ps).id) \o " | Title: " \o Head(ps).title
              \o " | Status: " \o Head(ps).status>> \o ProjectLines(Tail(ps))

Completed(ks) == Cardinality({i \in DOMAIN ks : ks[i].is_done})

ProjectNotFound(project_id) ==
    <<"Error: Project with ID " \o ToString(project_id) \o " not found.">>
TaskNotFound(task_id) == <<"Error: Task with ID " \o ToString(task_id) \o " not found.">>
IdeaNotFound(idea_id) == <<"Error: Idea with ID " \o ToString(idea_id) \o " not found.">>

\* what a tool leaves: its text and the tables
Leaves(text, ps, ks, is) == [text |-> text, projects |-> ps, tasks |-> ks, ideas |-> is]
Returns(text) == Leaves(text, projects, tasks, ideas)

\* ToolExecutor._get_projects
_get_projects(guild_id) ==
    IF get_guild_projects(guild_id) = <<>> THEN Returns(<<"No projects found.">>)
    ELSE Returns(ProjectLines(get_guild_projects(guild_id)))

\* ToolExecutor._get_project_info
_get_project_info(project_id) ==
    IF project_id = 0 THEN Returns(<<"Error: Missing project_id">>)
    ELSE IF get_project(project_id) = {} THEN Returns(ProjectNotFound(project_id))
    ELSE LET project == CHOOSE p \in get_project(project_id) : TRUE
             ks == get_project_tasks(project_id)
         IN  Returns(<<"**" \o project.title \o "** (ID: " \o ToString(project.id) \o ")",
                       "Status: " \o project.status,
                       "Tasks: " \o ToString(Completed(ks)) \o "/" \o ToString(Len(ks))
                           \o " completed">>
                     \o (IF ks = <<>> THEN <<>> ELSE <<"Task List:">> \o TaskLines(ks)))

\* ToolExecutor._archive_project
_archive_project(project_id) ==
    IF project_id = 0 THEN Returns(<<"Error: Missing project_id">>)
    ELSE IF get_project(project_id) = {} THEN Returns(ProjectNotFound(project_id))
    ELSE LET project == CHOOSE p \in get_project(project_id) : TRUE
         IN  IF project.status = "archived"
             THEN Returns(<<"Project '" \o project.title \o "' is already archived.">>)
             ELSE Leaves(<<"Project '" \o project.title \o "' has been archived.">>,
                         archive_project(project_id), tasks, ideas)

\* Database.create_task: the new row's id is the table's sequence plus one
create_task(project_id, label) ==
    tasks \cup {[id |-> task_seq + 1, project_id |-> project_id, label |-> label,
                 is_done |-> FALSE]}

\* ToolExecutor._create_task
_create_task(project_id, label) ==
    IF project_id = 0 \/ label = "" THEN Returns(<<"Error: Missing project_id or label">>)
    ELSE IF get_project(project_id) = {} THEN Returns(ProjectNotFound(project_id))
    ELSE Leaves(<<"Task created successfully! ID: " \o ToString(task_seq + 1)>>,
                projects, create_task(project_id, label), ideas)

\* ToolExecutor._get_tasks
_get_tasks(project_id) ==
    IF project_id = 0 THEN Returns(<<"Error: Missing project_id">>)
    ELSE IF get_project(project_id) = {} THEN Returns(ProjectNotFound(project_id))
    ELSE LET project == CHOOSE p \in get_project(project_id) : TRUE
             ks == get_project_tasks(project_id)
         IN  IF ks = <<>>
             THEN Returns(<<"No tasks found for project '" \o project.title \o "'.">>)
             ELSE Returns(<<"Tasks for **" \o project.title \o "**:">> \o TaskLines(ks)
                          \o <<"Progress: " \o ToString(Completed(ks)) \o "/"
                                 \o ToString(Len(ks)) \o " completed">>)

\* ToolExecutor._toggle_task
_toggle_task(task_id) ==
    IF task_id = 0 THEN Returns(<<"Error: Missing task_id">>)
    ELSE IF get_task(task_id) = {} THEN Returns(TaskNotFound(task_id))
    ELSE LET task == CHOOSE k \in get_task(task_id) : TRUE
         IN  Leaves(<<"Task '" \o task.label \o "' marked as "
                        \o (IF ~ task.is_done THEN "completed" ELSE "incomplete")>>,
                    projects, toggle_task(task_id), ideas)

\* ToolExecutor._delete_task
_delete_task(task_id) ==
    IF task_id = 0 THEN Returns(<<"Error: Missing task_id">>)
    ELSE IF get_task(task_id) = {} THEN Returns(TaskNotFound(task_id))
    ELSE LET task == CHOOSE k \in get_task(task_id) : TRUE
         IN  Leaves(<<"Task '" \o task.label \o "' has been deleted.">>,
                    projects, delete_task(task_id), ideas)

\* ToolExecutor._delete_idea
_delete_idea(idea_id) ==
    IF idea_id = 0 THEN Returns(<<"Error: Missing idea_id">>)
    ELSE IF get_idea(idea_id) = {} THEN Returns(IdeaNotFound(idea_id))
    ELSE LET idea == CHOOSE i \in get_idea(idea_id) : TRUE
         IN  Leaves(<<"Idea '" \o idea.title \o "' has been deleted.">>,
                    projects, tasks, delete_idea(idea_id))

\* Database.create_idea: the new row's id is the table's sequence plus one
create_idea(guild_id, title) ==
    ideas \cup {[id |-> idea_seq + 1, guild_id |-> guild_id, title |-> title]}

\* ToolExecutor._add_idea: the title goes to the store as it came
_add_idea(guild_id, title) ==
    Leaves(<<"Idea added! ID: " \o ToString(idea_seq + 1)>>,
           projects, tasks, create_idea(guild_id, title))

\* the argument mappings of a call: a tool reads one id of the mapping, and
\* the ids it does not read are the same number here; so are the label and
\* the title, both absent or both given
ArgMaps ==
    {[project_id |-> i, task_id |-> i, idea_id |-> i, label |-> l,
      title |-> IF l = "" THEN None ELSE l] :
         i \in ArgIds, l \in Labels}

\* the if/elif chain of execute_tool
Dispatch(tool_name, tool_args, context) ==
    CASE tool_name = "get_projects" -> _get_projects(context.guild_id)
      [] tool_name = "get_project_info" -> _get_project_info(tool_args.project_id)
      [] tool_name = "archive_project" -> _archive_project(tool_args.project_id)
      [] tool_name = "create_task" -> _create_task(tool_args.project_id, tool_args.label)
      [] tool_name = "get_tasks" -> _get_tasks(tool_args.project_id)
      [] tool_name = "toggle_task" -> _toggle_task(tool_args.task_id)
      [] tool_name = "delete_task" -> _delete_task(tool_args.task_id)
      [] tool_name = "add_idea" -> _add_idea(context.guild_id, tool_args.title)
      [] tool_name = "delete_idea" -> _delete_idea(tool_args.idea_id)
      [] OTHER -> Returns(<<"Error: Unknown tool '" \o tool_name \o "'">>)

\* the calls that reach the store: a known tool whose arguments pass its own
\* validation
ReachesStore(tool_name, tool_args) ==
    CASE tool_name \in {"get_projects", "add_idea"} -> TRUE
      [] tool_name \in {"get_project_info", "archive_project", "get_tasks"} ->
            tool_args.project_id # 0
      [] tool_name = "create_task" -> tool_args.project_id # 0 /\ tool_args.label # ""
      [] tool_name \in {"toggle_task", "delete_task"} -> tool_args.task_id # 0
      [] tool_name = "delete_idea" -> tool_args.idea_id # 0
      [] OTHER -> FALSE

\* the call lacks an argument that the "required" list of the tool's schema names
OmitsRequired(tool_name, tool_args) ==
    CASE tool_name \in {"get_project_info", "archive_project", "get_tasks"} ->
            tool_args.project_id = 0
      [] tool_name = "create_task" -> tool_args.project_id = 0 \/ tool_args.label = ""
      [] tool_name \in {"toggle_task", "delete_task"} -> tool_args.task_id = 0
      [] tool_name = "add_idea" -> tool_args.title = None
      [] tool_name = "delete_idea" -> tool_args.idea_id = 0
      [] OTHER -> FALSE

\* `title TEXT NOT NULL` of the ideas table: the INSERT of create_idea raises
\* sqlite3.IntegrityError
ConstraintFails(tool_name, tool_args) ==
    tool_name = "add_idea" /\ tool_args.title = None

\* an executor with no except clause: the exception reaches the caller
NoExceptClause(e) == [outcome |-> "raised", text |-> <<>>]

\* `except Exception as e: return f"Error executing tool: {str(e)}"`
ExceptClause(e) == [outcome |-> "returned", text |-> <<"Error executing tool: " \o e>>]

\* the referenced project, task or idea exists and is of another guild than
\* the caller's
Foreign(tool_name, tool_args, context) ==
    CASE tool_name \in {"get_project_info", "archive_project", "create_task", "get_tasks"} ->
            \E p \in get_project(tool_args.project_id) : p.guild_id # context.guild_id
      [] tool_name \in {"toggle_task", "delete_task"} ->
            \E k \in get_task(tool_args.task_id) :
                \E p \in get_project(k.project_id) : p.guild_id # context.guild_id
      [] tool_name = "delete_idea" ->
            \E i \in get_idea(tool_args.idea_id) : i.guild_id # context.guild_id
      [] OTHER -> FALSE

NoCall == [name |-> None, id |-> 0, omitted |-> FALSE, guild_id |-> None,
           foreign |-> FALSE, failed |-> FALSE, touched |-> FALSE,
           outcome |-> "none", text |-> <<>>, changed |-> FALSE]

\* the body of execute_tool: what the call returns (or raises) and the tables
\* it leaves; store_fails: a call to the store raises (the first one or a
\* later one: the tables are as before)
ToolOutcome(tool_name, tool_args, context, store_fails) ==
    LET failed == store_fails /\ ReachesStore(tool_name, tool_args)
        raised == failed \/ ConstraintFails(tool_name, tool_args)
        left == Dispatch(tool_name, tool_args, context)
        ended == IF failed THEN ExceptClause("database is locked")
                 ELSE IF raised
                 THEN ExceptClause("NOT NULL constraint failed: ideas.title")
                 ELSE [outcome |-> "returned", text |-> left.text]
    IN  [outcome |-> ended.outcome, text |-> ended.text, failed |-> failed,
         projects |-> IF raised THEN projects ELSE left.projects,
         tasks |-> IF raised THEN tasks ELSE left.tasks,
         ideas |-> IF raised THEN ideas ELSE left.ideas,
         task_seq |-> IF ~ raised /\ Cardinality(left.tasks) > Cardinality(tasks)
                      THEN task_seq + 1
                      ELSE task_seq,
         idea_seq |-> IF ~ raised /\ Cardinality(left.ideas) > Cardinality(ideas)
                      THEN idea_seq + 1
                      ELSE idea_seq]

\* the turn engine runs: no component is exercised on its own
UnitIdle == unit = <<>>

\* one project and one task of guild g1, no idea yet; the callers are of g1
\* and g2
ToolInit ==
    unit = [projects |-> {[id |-> 1, guild_id |-> "g1", title |-> "Alpha",
                           status |-> "active"]},
            tasks |-> {[id |-> 1, project_id |-> 1, label |-> "ship it",
                        is_done |-> FALSE]},
            ideas |-> {},
            task_seq |-> 1,
            idea_seq |-> 0,
            tool_result |-> NoCall]

\* ToolExecutor.execute_tool, the whole call
execute_tool(tool_name, tool_args, context, store_fails) ==
    /\ tool_name = "create_task" => task_seq < MaxTaskId
    /\ tool_name = "add_idea" => idea_seq < MaxIdeaId
    /\ LET left == ToolOutcome(tool_name, tool_args, context, store_fails)
       IN  unit' =
             [projects |-> left.projects,
              tasks |-> left.tasks,
              ideas |-> left.ideas,
              task_seq |-> left.task_seq,
              idea_seq |-> left.idea_seq,
              tool_result |->
                 [name |-> tool_name, id |-> tool_args.project_id,
                  omitted |-> OmitsRequired(tool_name, tool_args),
                  guild_id |-> context.guild_id,
                  foreign |-> Foreign(tool_name, tool_args, context),
                  failed |-> left.failed,
                  touched |-> ReachesStore(tool_name, tool_args),
                  outcome |-> left.outcome, text |-> left.text,
                  changed |-> <<left.projects, left.tasks, left.ideas>>
                                 # <<projects, tasks, ideas>>]]
    /\ UNCHANGED <<turn_vars, user_memories>>

ToolNext ==
    \E tool_name \in ToolNames, tool_args \in ArgMaps, g \in Guilds,
       store_fails \in BOOLEAN :
        execute_tool(tool_name, tool_args, [guild_id |-> g, user_id |-> User], store_fails)


\* ----------------------------------------------------- the history sanitizer

\* the texts of the rows of a history: a plain message, a whitespace-only one,
\* a slash command, the gateway's fallback, a question about the commands
RowContents ==
    {<<"hi">>, <<" ">>, <<"/", "roll">>, <<Fallback>>, <<"so ", "what commands", "?">>}

Roles == {"user", "assistant"}

Rows == [role : Roles, content : RowContents]

\* `"didn't quite get that" in msg_content`: the fallback is the token that holds it
HasFallbackMarker(content) == \E i \in DOMAIN content : content[i] = Fallback

\* a sanitizer that takes no message for a slash command
NeverSlash(content) == FALSE

\* msg_content.startswith('/')
StartsWithSlash(content) == content # <<>> /\ Head(content) = "/"

\* the command_indicators that occur in the texts of the model
CommandIndicators == {"what commands"}

\* any(indicator in msg_content or indicator in lower_content ...)
CommandLike(content) == \E i \in DOMAIN content : content[i] \in CommandIndicators

\* the rows the sanitizer's loop passes over
Skipped(msg) ==
    \/ IsBlank(msg.content)
    \/ msg.role = "assistant" /\ HasFallbackMarker(msg.content)
    \/ StartsWithSlash(msg.content)
    \/ CommandLike(msg.content)

\* the loop over raw_history, with its locals history and last_role
RECURSIVE SanitizeFrom(_, _, _)
SanitizeFrom(raw, hist, last_role) ==
    IF raw = <<>> THEN hist
    ELSE LET msg == Head(raw)
         IN  IF Skipped(msg) THEN SanitizeFrom(Tail(raw), hist, last_role)
             ELSE IF /\ msg.role = last_role
                     /\ hist # <<>>
                     /\ hist[Len(hist)].role = msg.role
             THEN SanitizeFrom(Tail(raw), [hist EXCEPT ![Len(hist)] = msg], last_role)
             ELSE SanitizeFrom(Tail(raw), Append(hist, msg), msg.role)

\* a sanitizer that keeps all it collected
WholeHistory(hist) == hist

\* `if len(history) > 4: history = history[-4:]`
LastFour(hist) ==
    IF Len(hist) > history_kept
    THEN SubSeq(hist, Len(hist) - history_kept + 1, Len(hist))
    ELSE hist

\* the sanitized history handle_mention builds from raw_history
Sanitize(raw) == LastFour(SanitizeFrom(raw, <<>>, None))

SanitizerInit == unit = [raw_history |-> <<>>, sanitized |-> <<>>]

\* get_recent_messages returns the history of a channel that has one row
\* more, and handle_mention sanitizes it
sanitize(msg) ==
    /\ Len(raw_history) < limit
    /\ unit' = [raw_history |-> Append(raw_history, msg),
                sanitized |-> Sanitize(Append(raw_history, msg))]
    /\ UNCHANGED <<turn_vars, user_memories>>

SanitizerNext == \E msg \in Rows : sanitize(msg)

\* ------------------------------------------- the gateway's response parsing

\* the tokens of a content the upstream model writes
ContentTokens == {"hi", " ", "~~~json", "~~~", "{mem:name}", "{mem:broken"}

\* every content of at most n tokens
Contents(n) == UNION {[1..m -> ContentTokens] : m \in 0..n}

\* the transport responses the parsing is exercised on: every content with no
\* tool call, and the shapes of UpstreamResponses (null content, tool calls,
\* a length-limited answer)
ParsedResponses(n) ==
    {Upstream(c, <<>>, "stop") : c \in Contents(n)}
    \cup {Upstream(c, <<>>, "length") : c \in Contents(n - 2)}
    \cup UpstreamResponses

\* how the retry of chat ends: its request fails, or returns a response
NoRetry == [failed |-> FALSE, data |-> Upstream(Null, <<>>, "none")]
RetryOutcomes ==
    {[failed |-> TRUE, data |-> Upstream(Null, <<>>, "none")]}
    \cup {[failed |-> FALSE, data |-> Upstream(c, <<>>, "stop")] :
             c \in {Null, <<" ">>, <<" ", "hi", " ">>}}

\* the calls of chat and chat_with_tool_results, by what the transport
\* answers; a retry is part of the call when chat makes one
LlmCalls(n) ==
    {[op |-> "cwtr", data |-> d, retry |-> NoRetry] : d \in ParsedResponses(n)}
    \cup {[op |-> "chat", data |-> d, retry |-> NoRetry] :
             d \in {e \in ParsedResponses(n) : ~ NeedsRetry(e)}}
    \cup {[op |-> "chat", data |-> d, retry |-> r] :
             d \in {e \in ParsedResponses(n) : NeedsRetry(e)}, r \in RetryOutcomes}

\* the LLMResponse a call returns
LlmResponseOf(call) ==
    IF call.op = "cwtr" THEN ToolResultsResponse(call.data)
    ELSE IF ~ NeedsRetry(call.data) THEN ChatResult(call.data)
    ELSE IF call.retry.failed THEN RetryFailedResult(ChatParsed(call.data))
    ELSE RetryResult(ChatParsed(call.data), call.retry.data)

\* the arguments the operations are called with: handle_mention passes the
\* tool schemas, chat_command does not, and neither passes max_tokens; a call
\* of chat with a budget below the retry's
CallArguments(o) ==
    IF o = "cwtr" THEN {[max_tokens |-> default_max_tokens, tools |-> TRUE]}
    ELSE {[max_tokens |-> default_max_tokens, tools |-> TRUE],
          [max_tokens |-> default_max_tokens, tools |-> FALSE],
          [max_tokens |-> 100, tools |-> FALSE]}

\* the transport requests a call makes, in order
PayloadsOf(call, args) ==
    IF call.op = "cwtr"
    THEN <<ToolResultsPayload("system_prompt", "hi", <<ToolCall(1, "{}")>>,
                              <<[tool_call_id |-> "call_1", name |-> "get_projects",
                                 result |-> "No projects found."]>>,
                              args.max_tokens, args.tools)>>
    ELSE LET first == ChatPayload("system_prompt", "hi", args.max_tokens, args.tools)
         IN  IF NeedsRetry(call.data) THEN <<first, RetryPayload(first)>>
             ELSE <<first>>

NotReturned == [returned |-> FALSE, content |-> <<>>, memories_to_save |-> <<>>,
                tool_calls |-> <<>>, payloads |-> <<>>]

\* a call of the gateway whose transport request has been answered
GatewayInit ==
    \E call \in LlmCalls(MaxContent) :
        unit = [llm_call |-> call, llm_response |-> NotReturned]

\* chat or chat_with_tool_results, called with args, posts its requests,
\* parses the answer and returns
llm_returns(args) ==
    /\ ~ llm_response.returned
    /\ unit' =
          [llm_call |-> llm_call,
           llm_response |->
              [returned |-> TRUE,
               content |-> LlmResponseOf(llm_call).content,
               memories_to_save |-> LlmResponseOf(llm_call).memories_to_save,
               tool_calls |-> LlmResponseOf(llm_call).tool_calls,
               payloads |-> PayloadsOf(llm_call, args)]]
    /\ UNCHANGED <<turn_vars, user_memories>>

GatewayNext == \E args \in CallArguments(llm_call.op) : llm_returns(args)

\* ---------------------------------------------------------- the memory store

Users == {"u1", "u2"}

\* the (user, guild) pairs whose memories are written: a user, another user
\* of the same guild, the same user in another guild
MemoryScopes == {<<"u1", "g1">>, <<"u2", "g1">>, <<"u1", "g2">>}

Keys == {"name", "lang"}

\* the (value, context) pairs that are written
Writes == {[value |-> "Kyle", context |-> "intro"], [value |-> "Kai", context |-> None]}

Identities == {<<sc[1], sc[2], k>> : sc \in MemoryScopes, k \in Keys}

Absent == [present |-> FALSE, value |-> None, context |-> None]

\* the rows a read of (user_id, guild_id, key) selects
memory_rows(rows, user_id, guild_id, key) ==
    {r \in rows : r.user_id = user_id /\ r.guild_id = guild_id /\ r.memory_key = key}

\* Database.delete_memory: DELETE ... WHERE user_id = ? AND guild_id = ? AND memory_key = ?
delete_memory(rows, user_id, guild_id, key) ==
    rows \ memory_rows(rows, user_id, guild_id, key)

\* Database.clear_user_memories: DELETE ... WHERE user_id = ? AND guild_id = ?
clear_user_memories(rows, user_id, guild_id) ==
    {r \in rows : ~ (r.user_id = user_id /\ r.guild_id = guild_id)}

\* a plain INSERT, on a table with no UNIQUE constraint
insert_memory(rows, user_id, guild_id, key, value, context) ==
    rows \cup {[user_id |-> user_id, guild_id |-> guild_id, memory_key |-> key,
                memory_value |-> value, context |-> context]}

\* Database.set_memory: INSERT ... ON CONFLICT(user_id, guild_id, memory_key)
\* DO UPDATE
set_memory(rows, user_id, guild_id, key, value, context) ==
    {r \in rows : ~ (r.user_id = user_id /\ r.guild_id = guild_id /\ r.memory_key = key)}
    \cup {[user_id |-> user_id, guild_id |-> guild_id, memory_key |-> key,
           memory_value |-> value, context |-> context]}

MemoryInit ==
    unit = [last_write |-> [id \in Identities |-> Absent],
            last_op |-> [name |-> None, user_id |-> None, guild_id |-> None]]

\* a call of Database.set_memory: one statement, committed
call_set_memory(user_id, guild_id, key, w) ==
    /\ user_memories' = set_memory(user_memories, user_id, guild_id, key, w.value, w.context)
    /\ unit' =
          [last_write |-> [last_write EXCEPT ![<<user_id, guild_id, key>>] =
                              [present |-> TRUE, value |-> w.value,
                               context |-> w.context]],
           last_op |-> [name |-> "set_memory", user_id |-> user_id,
                        guild_id |-> guild_id]]
    /\ UNCHANGED turn_vars

\* a call of Database.delete_memory
call_delete_memory(user_id, guild_id, key) ==
    /\ user_memories' = delete_memory(user_memories, user_id, guild_id, key)
    /\ unit' =
          [last_write |-> [last_write EXCEPT ![<<user_id, guild_id, key>>] = Absent],
           last_op |-> [name |-> "delete_memory", user_id |-> user_id,
                        guild_id |-> guild_id]]
    /\ UNCHANGED turn_vars

\* a call of Database.clear_user_memories
call_clear_user_memories(user_id, guild_id) ==
    /\ user_memories' = clear_user_memories(user_memories, user_id, guild_id)
    /\ unit' =
          [last_write |-> [id \in Identities |->
                              IF id[1] = user_id /\ id[2] = guild_id THEN Absent
                              ELSE last_write[id]],
           last_op |-> [name |-> "clear_user_memories", user_id |-> user_id,
                        guild_id |-> guild_id]]
    /\ UNCHANGED turn_vars

\* the calls come from any task, in any order; each is one statement on its
\* own connection, which the database runs one at a time
MemoryNext ==
    \E sc \in MemoryScopes :
        \/ \E k \in Keys, w \in Writes : call_set_memory(sc[1], sc[2], k, w)
        \/ \E k \in Keys : call_delete_memory(sc[1], sc[2], k)
        \/ call_clear_user_memories(sc[1], sc[2])

\* ------------------------------------------------------ the reply's chunks

(***************************************************************************)
(* The reply is a text of reply_len characters; a message that is sent is  *)
(* the slice of it between two indices, reply_content[from:to].            *)
(***************************************************************************)

\* a handler that never splits
NeverSplit(n) == FALSE

\* `if len(reply_content) > 2000`
NeedsSplit(n) == n > chunk_size

\* reply_content[i:j] of a text of n characters: the indices are clipped
Slice(n, i, j) ==
    [from |-> IF i < n THEN i ELSE n, to |-> IF j < n THEN j ELSE n]

\* range(0, len(reply_content), 2000), in order
RangeStarts(n) == [k \in 1..((n + chunk_size - 1) \div chunk_size) |-> (k - 1) * chunk_size]

\* chunks = [reply_content[i:i+2000] for i in range(0, len(reply_content), 2000)]
Chunks(n) == [k \in DOMAIN RangeStarts(n) |->
                 Slice(n, RangeStarts(n)[k], RangeStarts(n)[k] + chunk_size)]

\* handle_mention has its reply_content, stripped and not empty
ChunkInit ==
    \E n \in 1..MaxLength :
        unit = [reply_len |-> n, outbox |-> <<>>, replying |-> "sending"]

\* `await message.reply(reply_content)`: the whole text in one message
reply_whole ==
    /\ replying = "sending"
    /\ ~ NeedsSplit(reply_len)
    /\ unit' = [reply_len |-> reply_len,
                outbox |-> Append(outbox, [how |-> "reply", from |-> 0,
                                           to |-> reply_len]),
                replying |-> "sent"]
    /\ UNCHANGED <<turn_vars, user_memories>>

\* one pass of `for i, chunk in enumerate(chunks)`: the first chunk is a
\* reply, the others are plain sends
send_chunk ==
    /\ replying = "sending"
    /\ NeedsSplit(reply_len)
    /\ LET i == Len(outbox)
           chunk == Chunks(reply_len)[i + 1]
       IN  unit' = [reply_len |-> reply_len,
                    outbox |-> Append(outbox,
                                      [how |-> IF i = 0 THEN "reply" ELSE "send",
                                       from |-> chunk.from, to |-> chunk.to]),
                    replying |-> IF i + 1 = Len(Chunks(reply_len)) THEN "sent"
                                 ELSE "sending"]
    /\ UNCHANGED <<turn_vars, user_memories>>

ChunkNext == reply_whole \/ send_chunk

\* the turn engine before any message
TurnInit ==
    /\ pc = [t \in Tasks |-> "idle"]
    /\ kind = [t \in Tasks |-> "mention"]
    /\ chan = [t \in Tasks |-> "ch1"]
    /\ channel_locks = [c \in Channels |-> None]
    /\ api_lock = None
    /\ in_flight = {}
    /\ op = [t \in Tasks |-> None]
    /\ response = [t \in Tasks |-> NoResponse]
    /\ tool_round = [t \in Tasks |-> 0]
    /\ history = [s \in Scopes |-> <<>>]
    /\ mem_index = [t \in Tasks |-> 0]
    /\ sent = [t \in Tasks |-> <<>>]
    /\ requests = [t \in Tasks |-> 0]
    /\ gateway = [t \in Tasks |-> "none"]
    /\ transport_failed = [t \in Tasks |-> FALSE]
    /\ raised_at = [t \in Tasks |-> None]
    /\ user_memories = {}

\* the components that are exercised on their own are at rest

Init == TurnInit /\ UnitIdle

Bump(n) == IF n < CounterCap THEN n + 1 ELSE n

\* ------------------------------------------------------------- the locks

\* asyncio.Lock.locked() of a channel's lock and of the gateway's lock
NoChannelLock(c) == FALSE
ChannelLocked(c) == channel_locks[c] # None

NoApiLock == FALSE
ApiLocked == api_lock # None

\* a lock that stays with its holder
Kept(holder) == holder

\* what `async with lock` leaves in the lock when its body returns or raises
Released(holder) == None

\* --------------------------------------------------------------- dispatch

\* BrrrBot.on_message up to `async with self._channel_locks[channel.id]`
on_message(t, c) ==
    /\ UNCHANGED unit
    /\ pc[t] = "idle"
    /\ c \in ChannelsOf(t)
    /\ chan' = [chan EXCEPT ![t] = c]
    /\ pc' = [pc EXCEPT ![t] = "lock_wait"]
    /\ UNCHANGED <<kind, channel_locks, api_lock, in_flight, op, response,
                   tool_round, history, user_memories, mem_index, sent, requests, gateway,
                   transport_failed, raised_at>>

\* the channel lock is taken and Chat.handle_mention is entered
acquire_channel(t) ==
    /\ UNCHANGED unit
    /\ pc[t] = "lock_wait"
    /\ ~ ChannelLocked(chan[t])
    /\ channel_locks' = [channel_locks EXCEPT ![chan[t]] = t]
    /\ pc' = [pc EXCEPT ![t] = "load"]
    /\ UNCHANGED <<kind, chan, api_lock, in_flight, op, response, tool_round,
                   history, user_memories, mem_index, sent, requests, gateway,
                   transport_failed, raised_at>>

\* Chat.chat_command up to its first store read: no lock is taken
chat_command(t) ==
    /\ UNCHANGED unit
    /\ pc[t] = "idle"
    /\ "chat" \in CommandsOf(t)
    /\ kind' = [kind EXCEPT ![t] = "chat"]
    /\ pc' = [pc EXCEPT ![t] = "load"]
    /\ UNCHANGED <<chan, channel_locks, api_lock, in_flight, op, response,
                   tool_round, history, user_memories, mem_index, sent, requests, gateway,
                   transport_failed, raised_at>>

\* /project start and /week retro up to LLMClient._api_call
generate(t, k) ==
    /\ UNCHANGED unit
    /\ pc[t] = "idle"
    /\ k \in CommandsOf(t) \ {"chat"}
    /\ kind' = [kind EXCEPT ![t] = k]
    /\ op' = [op EXCEPT ![t] = k]
    /\ pc' = [pc EXCEPT ![t] = "api_wait"]
    /\ transport_failed' = [transport_failed EXCEPT ![t] = FALSE]
    /\ gateway' = [gateway EXCEPT ![t] = "pending"]
    /\ UNCHANGED <<chan, channel_locks, api_lock, in_flight, response,
                   tool_round, history, user_memories, mem_index, sent, requests, raised_at>>

\* ------------------------------------------------------ the turn's context

\* an exception reaches the except clause of the handler, which reads none of
\* the handler's locals: they are dropped
Raise(t, where) ==
    /\ raised_at' = [raised_at EXCEPT ![t] = where]
    /\ pc' = [pc EXCEPT ![t] = "except"]
    /\ response' = [response EXCEPT ![t] = NoResponse]
    /\ tool_round' = [tool_round EXCEPT ![t] = 0]
    /\ mem_index' = [mem_index EXCEPT ![t] = 0]

\* get_all_memories and get_recent_messages returned; the history is
\* sanitized, the message cleaned, and LLMClient.chat is called
load_context(t) ==
    /\ UNCHANGED unit
    /\ pc[t] = "load"
    /\ op' = [op EXCEPT ![t] = "chat"]
    /\ requests' = [requests EXCEPT ![t] = Bump(@)]
    /\ gateway' = [gateway EXCEPT ![t] = "pending"]
    /\ transport_failed' = [transport_failed EXCEPT ![t] = FALSE]
    /\ pc' = [pc EXCEPT ![t] = "api_wait"]
    /\ UNCHANGED <<kind, chan, channel_locks, api_lock, in_flight, response,
                   tool_round, history, user_memories, mem_index, sent, raised_at>>

\* a store call of the turn (a read of the context, add_message, set_memory)
\* raises instead of returning
store_raises(t) ==
    /\ UNCHANGED unit
    /\ pc[t] \in {"load", "save_user", "save_assistant", "save_memories"}
    /\ Raise(t, pc[t])
    /\ UNCHANGED <<kind, chan, channel_locks, api_lock, in_flight, op, history,
                   user_memories, sent, requests, gateway, transport_failed>>

\* ------------------------------------------------------------ the tool loop

\* the loop test with the ceiling off by one
ContinuesLoopInclusive(resp, round) == resp.tool_calls # <<>> /\ round <= max_tool_rounds

\* `while response.tool_calls and tool_round < max_tool_rounds`
ContinuesLoop(resp, round) == resp.tool_calls # <<>> /\ round < max_tool_rounds

\* `if tool_round >= max_tool_rounds and response.tool_calls`
HitCeiling(resp, round) == round >= max_tool_rounds /\ resp.tool_calls # <<>>

\* the ceiling's override left out
KeepResponse(resp, round) == resp

\* the response handle_mention goes on with once the loop is left
FinalResponse(resp, round) ==
    IF HitCeiling(resp, round) THEN [resp EXCEPT !.content = <<TooManySteps>>]
    ELSE resp

\* a round that is not counted
SameRound(round) == round

\* `tool_round += 1`
NextRound(round) == round + 1

\* a gateway operation returned resp to handle_mention or chat_command: the
\* code up to the next await
Deliver(t, resp) ==
    /\ gateway' = [gateway EXCEPT ![t] = "returned"]
    /\ IF kind[t] = "mention" /\ ContinuesLoop(resp, tool_round[t])
       THEN /\ tool_round' = [tool_round EXCEPT ![t] = NextRound(@)]
            /\ response' = [response EXCEPT ![t] = resp]
            /\ pc' = [pc EXCEPT ![t] = "tools"]
       ELSE /\ tool_round' = tool_round
            /\ response' = [response EXCEPT ![t] =
                   IF kind[t] = "mention" THEN FinalResponse(resp, tool_round[t])
                   ELSE resp]
            /\ pc' = [pc EXCEPT ![t] = "save_user"]

\* json.loads(tool_call["function"]["arguments"]) raises something other than
\* JSONDecodeError: the arguments are no text
ArgumentsRaise(call) == call.arguments = None

\* one round of the loop: every call is parsed and executed in order, then
\* chat_with_tool_results is called; a call whose parsing raises ends the turn
execute_tools(t) ==
    /\ UNCHANGED unit
    /\ pc[t] = "tools"
    /\ IF \E i \in DOMAIN response[t].tool_calls :
              ArgumentsRaise(response[t].tool_calls[i])
       THEN /\ Raise(t, "tools")
            /\ UNCHANGED <<op, requests, gateway, transport_failed>>
       ELSE /\ op' = [op EXCEPT ![t] = "cwtr"]
            /\ requests' = [requests EXCEPT ![t] = Bump(@)]
            /\ gateway' = [gateway EXCEPT ![t] = "pending"]
            /\ transport_failed' = [transport_failed EXCEPT ![t] = FALSE]
            /\ pc' = [pc EXCEPT ![t] = "api_wait"]
            /\ UNCHANGED <<raised_at, response, tool_round, mem_index>>
    /\ UNCHANGED <<kind, chan, channel_locks, api_lock, in_flight, history,
                   user_memories, sent>>

\* ------------------------------------------------------------ the gateway

\* LLMClient._api_call: the lock is taken and the request posted
api_send(t) ==
    /\ UNCHANGED unit
    /\ pc[t] = "api_wait"
    /\ ~ ApiLocked
    /\ api_lock' = t
    /\ in_flight' = in_flight \cup {t}
    /\ pc' = [pc EXCEPT ![t] = "api_inflight"]
    /\ UNCHANGED <<kind, chan, channel_locks, op, response, tool_round, history,
                   user_memories, mem_index, sent, requests, gateway,
                   transport_failed, raised_at>>

\* the endpoint answered 200 with data: _api_call returns it and the gateway
\* operation goes on
api_return(t, data) ==
    /\ UNCHANGED unit
    /\ pc[t] = "api_inflight"
    /\ data \in UpstreamResponses
    /\ api_lock' = Released(api_lock)
    /\ in_flight' = in_flight \ {t}
    /\ CASE op[t] = "chat" /\ NeedsRetry(data) ->
              /\ response' = [response EXCEPT ![t] = ChatParsed(data)]
              /\ op' = [op EXCEPT ![t] = "retry"]
              /\ pc' = [pc EXCEPT ![t] = "api_wait"]
              /\ UNCHANGED <<tool_round, gateway>>
         [] op[t] = "chat" /\ ~ NeedsRetry(data) ->
              /\ Deliver(t, ChatResult(data))
              /\ op' = op
         [] op[t] = "retry" ->
              /\ Deliver(t, RetryResult(response[t], data))
              /\ op' = op
         [] op[t] = "cwtr" ->
              /\ Deliver(t, ToolResultsResponse(data))
              /\ op' = op
         [] op[t] \in {"plan", "retro"} ->
              /\ gateway' = [gateway EXCEPT ![t] = "returned"]
              /\ pc' = [pc EXCEPT ![t] = "done"]
              /\ UNCHANGED <<op, response, tool_round>>
    /\ UNCHANGED <<kind, chan, channel_locks, history, user_memories, mem_index,
                   sent, requests, transport_failed, raised_at>>

\* a gateway that passes over the failure of a continuation too
SwallowedAlsoContinuation(o) == o \in {"retry", "cwtr"}

\* the transport failures chat passes over instead of raising: the retry's
Swallowed(o) == o = "retry"

\* the request failed (network error, status other than 200, timeout):
\* _api_call raises
api_fail(t) ==
    /\ UNCHANGED unit
    /\ pc[t] = "api_inflight"
    /\ api_lock' = Released(api_lock)
    /\ in_flight' = in_flight \ {t}
    /\ transport_failed' = [transport_failed EXCEPT ![t] = TRUE]
    /\ IF Swallowed(op[t])
       THEN /\ Deliver(t, RetryFailedResult(response[t]))
            /\ UNCHANGED <<raised_at, mem_index>>
       ELSE /\ gateway' = [gateway EXCEPT ![t] = "raised"]
            /\ IF op[t] \in {"plan", "retro"}
               THEN /\ pc' = [pc EXCEPT ![t] = "done"]
                    /\ UNCHANGED <<raised_at, response, tool_round, mem_index>>
               ELSE Raise(t, op[t])
    /\ UNCHANGED <<kind, chan, channel_locks, op, history, user_memories,
                   sent, requests>>

\* ------------------------------------------------------------ persistence

\* a row written twice
add_message_twice(rows, role, content, t) ==
    Append(Append(rows, [role |-> role, content |-> content, turn |-> t]),
           [role |-> role, content |-> content, turn |-> t])

\* Database.add_message: one row appended to the scope's history
add_message(rows, role, content, t) ==
    Append(rows, [role |-> role, content |-> content, turn |-> t])

\* `add_message(..., "user", content)` returned
add_message_user(t) ==
    /\ UNCHANGED unit
    /\ pc[t] = "save_user"
    /\ history' = [history EXCEPT ![Scope(t)] =
                       add_message(@, "user", <<CleanedMessage(t)>>, t)]
    /\ pc' = [pc EXCEPT ![t] = "save_assistant"]
    /\ UNCHANGED <<kind, chan, channel_locks, api_lock, in_flight, op, response,
                   tool_round, user_memories, mem_index, sent, requests, gateway,
                   transport_failed, raised_at>>

\* `add_message(..., "assistant", response.content)` returned
add_message_assistant(t) ==
    /\ UNCHANGED unit
    /\ pc[t] = "save_assistant"
    /\ history' = [history EXCEPT ![Scope(t)] =
                       add_message(@, "assistant", response[t].content, t)]
    /\ mem_index' = [mem_index EXCEPT ![t] = 0]
    /\ pc' = [pc EXCEPT ![t] =
                 IF response[t].memories_to_save = <<>> THEN "reply"
                 ELSE "save_memories"]
    /\ UNCHANGED <<kind, chan, channel_locks, api_lock, in_flight, op, response,
                   tool_round, user_memories, sent, requests, gateway,
                   transport_failed, raised_at>>

\* mem.get('key', 'misc'), mem.get('value', '')
MemoryKey(mem) == IF mem.key = None THEN "misc" ELSE mem.key
MemoryValue(mem) == IF mem.value = None THEN "" ELSE mem.value

\* the log line after set_memory reads mem['key'] and mem['value']
LogRaises(mem) == mem.key = None \/ mem.value = None

\* Database.set_memory returned for the next proposed memory, and the entry
\* is logged
save_memory(t) ==
    /\ UNCHANGED unit
    /\ pc[t] = "save_memories"
    /\ LET i == mem_index[t] + 1
           mem == response[t].memories_to_save[i]
       IN  /\ user_memories' = set_memory(user_memories, User, Guild, MemoryKey(mem),
                                           MemoryValue(mem), mem.context)
           /\ IF LogRaises(mem)
              THEN Raise(t, "log")
              ELSE /\ mem_index' = [mem_index EXCEPT ![t] = i]
                   /\ pc' = [pc EXCEPT ![t] =
                          IF i = Len(response[t].memories_to_save) THEN "reply"
                          ELSE "save_memories"]
                   /\ UNCHANGED <<raised_at, response, tool_round>>
    /\ UNCHANGED <<kind, chan, channel_locks, api_lock, in_flight, op, history,
                   sent, requests, gateway, transport_failed>>

\* ------------------------------------------------------------------ replies

\* response.content.strip(), or the blank-brain text when that is empty
ReplyContent(resp) == IF IsBlank(resp.content) THEN <<Blank>> ELSE Strip(resp.content)

\* an apology that quotes the exception
ExceptReplyWithError(k) == <<Apology, "Error: ", "exception text">>

\* what the except clause sends
ExceptReply(k) == IF k = "mention" THEN <<Apology>> ELSE <<CommandApology>>

\* the channel lock when the task's handler ends: on_message leaves its
\* `async with`; chat_command held none
AfterTurn(t) ==
    IF kind[t] = "mention"
    THEN [channel_locks EXCEPT ![chan[t]] = Released(@)]
    ELSE channel_locks

\* the reply is sent and the handler returns
send_reply(t) ==
    /\ UNCHANGED unit
    /\ pc[t] = "reply"
    /\ sent' = [sent EXCEPT ![t] = Append(@, ReplyContent(response[t]))]
    /\ channel_locks' = AfterTurn(t)
    /\ pc' = [pc EXCEPT ![t] = "done"]
    /\ UNCHANGED <<kind, chan, api_lock, in_flight, op, response, tool_round,
                   history, user_memories, mem_index, requests, gateway,
                   transport_failed, raised_at>>

\* `except Exception`: the error is logged, the apology sent, the handler returns
handle_exception(t) ==
    /\ UNCHANGED unit
    /\ pc[t] = "except"
    /\ sent' = [sent EXCEPT ![t] = Append(@, ExceptReply(kind[t]))]
    /\ channel_locks' = AfterTurn(t)
    /\ pc' = [pc EXCEPT ![t] = "failed"]
    /\ UNCHANGED <<kind, chan, api_lock, in_flight, op, response, tool_round,
                   history, user_memories, mem_index, requests, gateway,
                   transport_failed, raised_at>>

\* ------------------------------------------- one mention, call by call

(***************************************************************************)
(* handle_mention for one mention, with the tool loop taken one            *)
(* execute_tool call at a time over the tables of the tool executor.  The  *)
(* context of the turn is whatever the store held when the message came;   *)
(* history and user_memories hold what is written from then on.            *)
(***************************************************************************)

\* the task of the mention
TheTurn == "t1"

\* what get_all_memories and the sanitized get_recent_messages can give
TurnContexts ==
    {[user_memories |-> <<>>, custom_instructions |-> None,
      conversation_context |-> None],
     [user_memories |-> <<[key |-> "name", value |-> "Kai"]>>,
      custom_instructions |-> "be brief",
      conversation_context |-> <<[role |-> "user", content |-> <<"hi">>],
                                 [role |-> "assistant", content |-> <<"hello">>]>>]}

\* LLMClient._build_system_prompt: the base prompt, then the persona, the
\* memories and the history, each when there is one
_build_system_prompt(user_mems, user_name, custom_instructions, conversation_context) ==
    <<"BASE_PROMPT", user_name>>
        \o (IF custom_instructions = None THEN <<>> ELSE <<custom_instructions>>)
        \o (IF user_mems = <<>> THEN <<>> ELSE <<user_mems>>)
        \o (IF conversation_context = None THEN <<>> ELSE <<conversation_context>>)

\* the prompt of every request of a turn
TurnPrompt(ctx) ==
    _build_system_prompt(ctx.user_memories, "user_name", ctx.custom_instructions,
                         ctx.conversation_context)

\* a tool call of a response
Call(i, name, a) == [id |-> "call_" \o ToString(i), name |-> name, arguments |-> a]

\* the argument texts that are JSON objects, with the arguments they hold
NoArguments == [project_id |-> 0, task_id |-> 0, idea_id |-> 0, label |-> "",
                title |-> None]
JsonArguments ==
    [a \in {"{}", "{task_id: 1}"} |->
        IF a = "{}" THEN NoArguments ELSE [NoArguments EXCEPT !.task_id = 1]]

\* `try: arguments = json.loads(...) except json.JSONDecodeError: arguments = {}`
ParseArguments(a) == IF a \in DOMAIN JsonArguments THEN JsonArguments[a] ELSE NoArguments

\* what a transport request of the turn can return: a final text, a memory
\* block alone, a text and a block with a keyless entry, and responses with
\* calls (one call and a memory block, a call with malformed arguments before
\* another, a call whose arguments are no text before another)
TurnResponses ==
    {Upstream(<<"hi">>, <<>>, "stop"),
     Upstream(<<"~~~json", "{mem:name}", "~~~">>, <<>>, "stop"),
     Upstream(<<"ok", "~~~json", "{mem:nokey}", "~~~">>, <<>>, "stop"),
     Upstream(<<"on it", "~~~json", "{mem:city}", "~~~">>,
              <<Call(1, "toggle_task", "{task_id: 1}")>>, "stop"),
     Upstream(Null, <<Call(1, "toggle_task", "{oops"), Call(2, "get_projects", "{}")>>,
              "stop"),
     Upstream(<<"hi">>, <<Call(1, "get_projects", None),
                          Call(2, "toggle_task", "{task_id: 1}")>>, "stop")}

\* the tables as the message comes, and the locals of the handler
LoopInit ==
    unit = [projects |-> {[id |-> 1, guild_id |-> "g1", title |-> "Alpha",
                           status |-> "active"]},
            tasks |-> {[id |-> 1, project_id |-> 1, label |-> "ship it",
                        is_done |-> FALSE]},
            ideas |-> {},
            task_seq |-> 1,
            idea_seq |-> 0,
            context |-> None,
            next_call |-> 0,
            current_tool_results |-> <<>>,
            executed |-> <<>>,
            gateway_calls |-> <<>>,
            answers |-> <<>>]

\* on_message took the channel's lock; handle_mention read the context and
\* calls LLMClient.chat
begin_mention(t, ctx) ==
    /\ pc[t] = "idle"
    /\ channel_locks' = [channel_locks EXCEPT ![chan[t]] = t]
    /\ op' = [op EXCEPT ![t] = "chat"]
    /\ requests' = [requests EXCEPT ![t] = Bump(@)]
    /\ gateway' = [gateway EXCEPT ![t] = "pending"]
    /\ pc' = [pc EXCEPT ![t] = "api_wait"]
    /\ unit' = [unit EXCEPT
                  !.context = ctx,
                  !.gateway_calls =
                      <<ChatPayload(TurnPrompt(ctx), <<CleanedMessage(t)>>,
                                    default_max_tokens, TRUE)>>]
    /\ UNCHANGED <<kind, chan, api_lock, in_flight, response, tool_round, history,
                   user_memories, mem_index, sent, transport_failed, raised_at>>

\* a response whose memories are added to those of the response before
Accumulated(previous, returned) ==
    [returned EXCEPT !.memories_to_save = previous.memories_to_save \o @]

\* `response = await self.llm.chat(...)`, `response = await
\* self.llm.chat_with_tool_results(...)`: the response before is dropped
Reassigned(previous, returned) == returned

\* the endpoint answered 200 with data: chat or chat_with_tool_results
\* returns, and handle_mention runs up to its next await
turn_api_return(t, data) ==
    /\ pc[t] = "api_inflight"
    /\ op[t] \in {"chat", "cwtr"}
    /\ ~ NeedsRetry(data)
    /\ api_lock' = Released(api_lock)
    /\ in_flight' = in_flight \ {t}
    /\ LET returned == IF op[t] = "chat" THEN ChatResult(data)
                       ELSE ToolResultsResponse(data)
       IN  /\ Deliver(t, Reassigned(response[t], returned))
           /\ unit' = [unit EXCEPT !.answers = Append(@, returned),
                                   !.next_call = 0,
                                   !.current_tool_results = <<>>]
    /\ UNCHANGED <<kind, chan, channel_locks, op, history, user_memories, mem_index,
                   sent, requests, transport_failed, raised_at>>

\* one pass of `for tool_call in current_tool_calls`; after the last one,
\* chat_with_tool_results is called with the round's calls and results
run_tool(t, store_fails) ==
    /\ pc[t] = "tools"
    /\ LET calls == response[t].tool_calls
           call == calls[next_call + 1]
           left == ToolOutcome(call.name, ParseArguments(call.arguments),
                               [guild_id |-> Guild, user_id |-> User], store_fails)
           results == Append(current_tool_results,
                             [tool_call_id |-> call.id, name |-> call.name,
                              result |-> left.text])
       IN  IF ArgumentsRaise(call) \/ left.outcome = "raised"
           THEN /\ Raise(t, "tools")
                /\ UNCHANGED <<unit, op, requests, gateway, transport_failed>>
           ELSE /\ unit' = [unit EXCEPT
                              !.projects = left.projects,
                              !.tasks = left.tasks,
                              !.ideas = left.ideas,
                              !.task_seq = left.task_seq,
                              !.idea_seq = left.idea_seq,
                              !.next_call = next_call + 1,
                              !.current_tool_results = results,
                              !.executed =
                                  Append(@, [round |-> tool_round[t],
                                             index |-> next_call + 1,
                                             call |-> call,
                                             arguments |-> ParseArguments(call.arguments),
                                             result |-> left.text]),
                              !.gateway_calls =
                                  IF next_call + 1 < Len(calls) THEN @
                                  ELSE Append(@, ToolResultsPayload(
                                                    TurnPrompt(turn_context),
                                                    <<CleanedMessage(t)>>, calls, results,
                                                    default_max_tokens, TRUE))]
                /\ IF next_call + 1 < Len(calls)
                   THEN UNCHANGED <<pc, op, requests, gateway, transport_failed>>
                   ELSE /\ op' = [op EXCEPT ![t] = "cwtr"]
                        /\ requests' = [requests EXCEPT ![t] = Bump(@)]
                        /\ gateway' = [gateway EXCEPT ![t] = "pending"]
                        /\ transport_failed' = [transport_failed EXCEPT ![t] = FALSE]
                        /\ pc' = [pc EXCEPT ![t] = "api_wait"]
                /\ UNCHANGED <<raised_at, response, tool_round, mem_index>>
    /\ UNCHANGED <<kind, chan, channel_locks, api_lock, in_flight, history,
                   user_memories, sent>>

LoopNext ==
    \/ \E ctx \in TurnContexts : begin_mention(TheTurn, ctx)
    \/ api_send(TheTurn)
    \/ \E data \in TurnResponses : turn_api_return(TheTurn, data)
    \/ api_fail(TheTurn)
    \/ \E store_fails \in BOOLEAN : run_tool(TheTurn, store_fails)
    \/ add_message_user(TheTurn)
    \/ add_message_assistant(TheTurn)
    \/ save_memory(TheTurn)
    \/ send_reply(TheTurn)
    \/ handle_exception(TheTurn)

\* ------------------------------------------------------------ specification

\* a step of task t once its message or command has arrived
Step(t) ==
    \/ acquire_channel(t)
    \/ load_context(t)
    \/ store_raises(t)
    \/ execute_tools(t)
    \/ api_send(t)
    \/ \E data \in UpstreamResponses : api_return(t, data)
    \/ api_fail(t)
    \/ add_message_user(t)
    \/ add_message_assistant(t)
    \/ save_memory(t)
    \/ send_reply(t)
    \/ handle_exception(t)

Arrive(t) ==
    \/ \E c \in Channels : on_message(t, c)
    \/ chat_command(t)
    \/ \E k \in {"plan", "retro"} : generate(t, k)

Next == \E t \in Tasks : Arrive(t) \/ Step(t)

Spec == Init /\ [][Next]_vars

\* the event loop runs every task that can run; the endpoint answers or the
\* request fails; the store returns or raises
Fairness == \A t \in Tasks : WF_vars(Step(t))

FairSpec == Spec /\ Fairness

\* the history sanitizer on its own, over every raw history of at most
\* limit rows
SanitizerStart == TurnInit /\ SanitizerInit

SanitizerSpec == SanitizerStart /\ [][SanitizerNext]_vars

\* the response parsing of the gateway on its own, over every answer of the
\* transport
GatewayStart == TurnInit /\ GatewayInit

GatewaySpec == GatewayStart /\ [][GatewayNext]_vars

\* the sending of a reply on its own, over every length of the reply
ChunkStart == TurnInit /\ ChunkInit

ChunkSpec == ChunkStart /\ [][ChunkNext]_vars

\* the memory store on its own: any sequence of writes by any users
MemoryStart == TurnInit /\ MemoryInit

MemorySpec == MemoryStart /\ [][MemoryNext]_vars

\* the tool executor on its own: any sequence of execute_tool calls
ToolStart == TurnInit /\ ToolInit

ToolSpec == ToolStart /\ [][ToolNext]_vars

\* one mention, call by call
LoopStart == TurnInit /\ LoopInit

LoopSpec == LoopStart /\ [][LoopNext]_vars

TypeOK ==
    /\ pc \in [Tasks -> {"idle", "lock_wait", "load", "api_wait", "api_inflight",
                         "tools", "save_user", "save_assistant", "save_memories",
                         "reply", "except", "done", "failed"}]
    /\ tool_round \in [Tasks -> 0..max_tool_rounds]
    /\ in_flight \subseteq Tasks

\* ------------------------------------------------------------------ claims

Mentions == {t \in Tasks : kind[t] = "mention" /\ pc[t] # "idle"}

\* the positions inside Chat.handle_mention (for a mention) or chat_command
InTurn == {"load", "api_wait", "api_inflight", "tools", "save_user",
           "save_assistant", "save_memories", "reply", "except"}

\* the positions after the tool loop of a turn that did not raise
AfterLoop == {"save_user", "save_assistant", "save_memories", "reply", "done"}

\* the rows of the task's scope that the task's turn wrote
TurnRows(t) ==
    LET written(r) == r.turn = t
    IN  SelectSeq(history[Scope(t)], written)

\* C1 as stated: a handle_mention turn calls the gateway (chat and every
\* chat_with_tool_results) at most 5 times
C1_AtMostFiveRequests ==
    \A t \in Mentions : requests[t] <= max_tool_rounds

\* C1 as amended: a handle_mention turn calls the gateway at most 6 times, the
\* chat call and at most 5 chat_with_tool_results calls, even when every
\* response carries tool calls
C1_AtMostSixRequests ==
    \A t \in Mentions :
        /\ requests[t] <= max_tool_rounds + 1
        /\ tool_round[t] <= max_tool_rounds
        /\ pc[t] \in InTurn \ {"except"} => requests[t] <= tool_round[t] + 1

\* a turn in which all six responses carried tool calls has completed
C1_Witness ==
    \E t \in Mentions :
        /\ pc[t] = "done"
        /\ requests[t] = max_tool_rounds + 1
        /\ response[t].tool_calls # <<>>

\* C2: the user row and the assistant row one turn wrote to a scope are
\* adjacent, whether the turn is a mention's or a /chat command's
C2_TurnRowsAdjacent ==
    \A sc \in Scopes : \A i, j \in DOMAIN history[sc] :
        (i < j /\ history[sc][i].turn = history[sc][j].turn) => j = i + 1

\* C3: of the mentions dispatched through on_message, at most one is inside
\* handle_mention per channel
C3_OneTurnPerChannel ==
    \A c \in Channels :
        Cardinality({t \in Mentions : chan[t] = c /\ pc[t] \in InTurn}) <= 1

\* two mentions in distinct channels are inside handle_mention at once
C3_Witness ==
    \E t, u \in Mentions :
        /\ chan[t] # chan[u]
        /\ pc[t] \in InTurn
        /\ pc[u] \in InTurn

\* C4: a handle_mention turn that completed wrote exactly two rows to its
\* scope, the cleaned message as "user" and then the final content as
\* "assistant", whatever the number of tool rounds; before the loop is left
\* the turn has written no row
C4_TwoRowsPerTurn ==
    \A t \in Mentions :
        /\ pc[t] = "done" =>
              TurnRows(t) =
                  << [role |-> "user", content |-> <<CleanedMessage(t)>>, turn |-> t],
                     [role |-> "assistant", content |-> response[t].content, turn |-> t] >>
        /\ pc[t] \in {"lock_wait", "load", "api_wait", "api_inflight", "tools"} =>
              TurnRows(t) = <<>>

\* a turn of five tool rounds has completed and its two rows are in the store
C4_Witness ==
    \E t \in Mentions :
        /\ pc[t] = "done"
        /\ tool_round[t] = max_tool_rounds
        /\ Len(TurnRows(t)) = 2

\* C5: when the loop is left at the ceiling with a response that still carries
\* tool calls, the response's content is the fixed message, and so are the
\* assistant row and the reply
C5_CeilingMessage ==
    \A t \in Mentions :
        (   pc[t] \in AfterLoop
         /\ tool_round[t] >= max_tool_rounds
         /\ response[t].tool_calls # <<>>)
        => /\ response[t].content = <<TooManySteps>>
           /\ \A i \in DOMAIN TurnRows(t) :
                 TurnRows(t)[i].role = "assistant" =>
                     TurnRows(t)[i].content = <<TooManySteps>>
           /\ pc[t] \in {"reply", "done"} => Len(TurnRows(t)) = 2
           /\ pc[t] = "done" => sent[t] = << <<TooManySteps>> >>

\* the fixed message has been sent for a turn that hit the ceiling
C5_Witness ==
    \E t \in Mentions :
        /\ pc[t] = "done"
        /\ tool_round[t] = max_tool_rounds
        /\ response[t].tool_calls # <<>>
        /\ sent[t] = << <<TooManySteps>> >>
        /\ TurnRows(t)[2].content = <<TooManySteps>>

\* C6: every turn that entered handle_mention (or chat_command) ends, completed
\* with its reply sent or failed with the apology sent, after at most
\* max_tool_rounds + 1 gateway calls, whatever the model answers, as long as
\* every gateway and store call returns or raises
C6_TurnTerminates ==
    /\ [](\A t \in Tasks : requests[t] <= max_tool_rounds + 1)
    /\ \A t \in Tasks : (pc[t] = "load") ~> (pc[t] \in {"done", "failed"})

\* a turn has completed after some tool rounds, below the ceiling
C6_Witness ==
    \E t \in Mentions :
        /\ pc[t] = "done"
        /\ tool_round[t] \in 1..(max_tool_rounds - 1)
        /\ response[t].tool_calls = <<>>
        /\ Len(sent[t]) = 1

\* C7: at most one request to the model endpoint is in flight, whoever calls
\* _api_call
C7_OneRequestInFlight ==
    /\ Cardinality(in_flight) <= 1
    /\ \A t \in Tasks : pc[t] = "api_inflight" <=> t \in in_flight

\* a mention's request is in flight while the turn of a mention in another
\* channel waits for the gateway's lock
C7_Witness ==
    \E t, u \in Mentions :
        /\ chan[u] # chan[t]
        /\ in_flight = {t}
        /\ pc[u] = "api_wait"

\* C8: a task that is not inside the guarded call holds neither lock; a
\* mention waiting for the channel of a failed turn is processed; a caller
\* waiting for the gateway after a failed request has its request sent
C8_LocksReleased ==
    /\ [](\A t \in Tasks :
            /\ pc[t] \notin InTurn => \A c \in Channels : channel_locks[c] # t
            /\ pc[t] # "api_inflight" => api_lock # t)
    /\ \A t \in Tasks : \A u \in Tasks \ {t} :
          /\ (pc[t] = "failed" /\ pc[u] = "lock_wait" /\ chan[u] = chan[t])
                ~> (pc[u] \in {"done", "failed"})
          /\ (transport_failed[t] /\ pc[t] # "api_inflight" /\ pc[u] = "api_wait")
                ~> (pc[u] = "api_inflight")

\* a mention's request is in flight in the channel where an earlier turn
\* failed on a transport failure
C8_Witness ==
    \E t, u \in Mentions :
        /\ t # u
        /\ chan[t] = chan[u]
        /\ pc[t] = "failed"
        /\ raised_at[t] = "chat"
        /\ transport_failed[t]
        /\ pc[u] = "api_inflight"

\* the turns that call LLMClient.chat and chat_with_tool_results
Turns == {t \in Tasks : kind[t] \in {"mention", "chat"}}

\* C9 as stated: a gateway operation in which a transport request failed,
\* the retry's included, has raised and not returned
C9_TransportFailureRaises ==
    \A t \in Turns : transport_failed[t] => gateway[t] = "raised"

\* C9 as amended: when the first request of chat or the request of
\* chat_with_tool_results fails the operation raises; when the retry's
\* request fails chat returns, with the fallback string as content
C9_TransportFailureRaisesButRetry ==
    \A t \in Turns :
        transport_failed[t] =>
            IF op[t] = "retry"
            THEN /\ gateway[t] = "returned"
                 /\ pc[t] \in {"tools", "save_user"} =>
                        response[t].content = <<Fallback>>
            ELSE /\ gateway[t] = "raised"
                 /\ pc[t] \in {"except", "failed"}

\* the retry's request failed and chat returned the fallback to the turn
C9_Witness ==
    \E t \in Turns :
        /\ transport_failed[t]
        /\ op[t] = "retry"
        /\ gateway[t] = "returned"
        /\ pc[t] = "save_user"
        /\ response[t].content = <<Fallback>>

\* C11: when the memory loop of handle_mention goes on after an upsert that
\* the store completed, it goes on to the next entry or, after the last one,
\* to the reply, with every proposed memory in the store under its key (or
\* "misc") with its value (or ""): no entry stops the later ones
C11_EveryMemorySaved ==
    [][\A t \in Tasks :
          (kind[t] = "mention" /\ pc[t] = "save_memories"
               /\ pc'[t] # "save_memories" /\ raised_at'[t] # "save_memories")
          => /\ pc'[t] = "reply"
             /\ \A i \in DOMAIN response[t].memories_to_save :
                   LET mem == response[t].memories_to_save[i]
                   IN  \E r \in user_memories' :
                          /\ r.user_id = User /\ r.guild_id = Guild
                          /\ r.memory_key = MemoryKey(mem)
                          /\ r.memory_value = MemoryValue(mem)]_vars

\* C12: a call of a tool that takes an id, naming a project, task or idea
\* of another guild than the caller's, returns the not-found error text for
\* that id and changes no table
C12_ForeignIdNotFound ==
    tool_result.foreign =>
        /\ tool_result.outcome = "returned"
        /\ tool_result.text \in {ProjectNotFound(tool_result.id),
                                  TaskNotFound(tool_result.id),
                                  IdeaNotFound(tool_result.id)}
        /\ ~ tool_result.changed

\* C14: execute_tool ends by returning a text, never by raising: a name
\* outside the registry gets the "Unknown tool" error text, a call whose
\* store access failed a text that begins with "Error"
C14_ExecuteToolReturns ==
    /\ tool_result.outcome \in {"none", "returned"}
    /\ tool_result.outcome = "returned" => tool_result.text # <<>>
    /\ tool_result.name = "no_such_tool" =>
           tool_result.text = <<"Error: Unknown tool 'no_such_tool'">>
    /\ tool_result.failed => 
           /\ tool_result.text = <<"Error executing tool: database is locked">>
           /\ ~ tool_result.changed

\* a known tool's store access failed and the call returned the error text
C14_Witness ==
    /\ tool_result.failed
    /\ tool_result.name = "archive_project"
    /\ tool_result.outcome = "returned"

\* s is t with some entries left out, the others in their order
RECURSIVE IsSubsequence(_, _)
IsSubsequence(s, t) ==
    IF s = <<>> THEN TRUE
    ELSE IF t = <<>> THEN FALSE
    ELSE IF Head(s) = Head(t) THEN IsSubsequence(Tail(s), Tail(t))
    ELSE IsSubsequence(s, Tail(t))

\* C16: the sanitized history has at most 4 entries and no two consecutive
\* entries of the same role
C16_BoundedAlternating ==
    /\ Len(sanitized) \in 0..4
    /\ \A i \in 1..(Len(sanitized) - 1) : sanitized[i].role # sanitized[i + 1].role

\* five rows of alternating roles, none skipped: the oldest is cut
C16_Witness ==
    /\ Len(raw_history) = 5
    /\ \A i \in 1..5 : ~ Skipped(raw_history[i])
    /\ \A i \in 1..4 : raw_history[i].role # raw_history[i + 1].role
    /\ sanitized = SubSeq(raw_history, 2, 5)

\* C17: the sanitized history holds no slash command, no empty or
\* whitespace-only text and no assistant turn with the fallback marker; its
\* entries are entries of the raw history, in the raw order
C17_NoCommandsNoFallback ==
    /\ \A i \in DOMAIN sanitized :
          /\ ~ (sanitized[i].content # <<>> /\ Head(sanitized[i].content) = "/")
          /\ Strip(sanitized[i].content) # <<>>
          /\ ~ (sanitized[i].role = "assistant" /\ Fallback \in
                    {sanitized[i].content[j] : j \in DOMAIN sanitized[i].content})
    /\ IsSubsequence(sanitized, raw_history)

\* a slash command, a blank text and a fallback of the assistant were among
\* the raw rows, and the two other rows were kept
C17_Witness ==
    /\ \E i \in DOMAIN raw_history : raw_history[i].content = <<"/", "roll">>
    /\ \E i \in DOMAIN raw_history : raw_history[i].content = <<" ">>
    /\ \E i \in DOMAIN raw_history :
          raw_history[i] = [role |-> "assistant", content |-> <<Fallback>>]
    /\ Len(sanitized) = 2

\* C13: the content of every LLMResponse chat and chat_with_tool_results
\* return is non-empty once trimmed, whatever the transport answered: null,
\* empty or whitespace-only content, a memory block alone, tool calls alone
C13_ContentNeverEmpty ==
    llm_response.returned => Strip(llm_response.content) # <<>>

\* a response of null content that carries only tool calls was answered with
\* the fallback text and its tool calls
C13_Witness ==
    /\ llm_response.returned
    /\ llm_call.data.content = Null
    /\ llm_call.data.tool_calls # <<>>
    /\ llm_response.tool_calls # <<>>
    /\ llm_response.content = <<Fallback>>

\* the upstream content of the call, its last "~~~json" fence (0: none), the
\* fence that closes that block (0: none) and the block's body
UpstreamContent == ContentOf(llm_call.data)
LastBlockStart == LastIndexIn(UpstreamContent, {"~~~json"}, 1)
LastBlockEnd ==
    LET after == {i \in (LastBlockStart + 1)..Len(UpstreamContent) :
                     UpstreamContent[i] = "~~~"}
    IN  IF LastBlockStart = 0 \/ after = {} THEN 0
        ELSE CHOOSE i \in after : \A j \in after : i <= j
LastBlockBody == Strip(SubSeq(UpstreamContent, LastBlockStart + 1, LastBlockEnd - 1))
LastBlockValid ==
    /\ LastBlockStart # 0
    /\ LastBlockEnd # 0
    /\ Len(LastBlockBody) = 1
    /\ LastBlockBody[1] \in DOMAIN ValidJson

\* the number of "~~~json" fences in a text
JsonFences(text) == Cardinality({i \in DOMAIN text : text[i] = "~~~json"})

\* C19: when the last "~~~json" block of the content is valid JSON with a
\* memories array, the response's memories_to_save is that array and the
\* visible content has lost that block and no other
C19_LastBlockExtracted ==
    (llm_response.returned /\ LastBlockValid) =>
        /\ llm_response.memories_to_save = ValidJson[LastBlockBody[1]]
        /\ JsonFences(llm_response.content) = JsonFences(UpstreamContent) - 1

\* C20: when the last "~~~json" block of the content is no valid JSON or has
\* no closing fence, the call returns, with no memories and with the upstream
\* content as its content
C20_BrokenBlockIgnored ==
    (llm_response.returned /\ LastBlockStart # 0 /\ ~ LastBlockValid) =>
        /\ llm_response.memories_to_save = <<>>
        /\ llm_response.content = UpstreamContent

\* a call whose content ends in a block of broken JSON that mentions
\* memories has returned
C20_Witness ==
    /\ llm_response.returned
    /\ UpstreamContent = <<"hi", " ", "~~~json", "{mem:broken", "~~~">>
    /\ llm_response.content = UpstreamContent

\* C15: under any sequence of set_memory, delete_memory and
\* clear_user_memories calls the store holds at most one row per (user,
\* guild, key); a read of (user, guild, key) gives the value and context of
\* the latest set_memory when no later call wrote to it, and nothing once it
\* is deleted or cleared; a call for one user and guild changes no row of
\* another user or another guild
C15_OneRowPerKeyLastWriteWins ==
    /\ [](\A id \in Identities :
            LET found == memory_rows(user_memories, id[1], id[2], id[3])
            IN  /\ Cardinality(found) <= 1
                /\ last_write[id].present <=>  found # {}
                /\ \A r \in found :
                      /\ r.memory_value = last_write[id].value
                      /\ r.context = last_write[id].context)
    /\ [][\A r \in user_memories \cup user_memories' :
            (r.user_id # last_op'.user_id \/ r.guild_id # last_op'.guild_id)
                => (r \in user_memories /\ r \in user_memories')]_vars

\* a key was set twice, with a new value the second time, while another
\* user and another guild hold the same key
C15_Witness ==
    /\ last_op.name = "set_memory"
    /\ memory_rows(user_memories, "u1", "g1", "name")
          = {[user_id |-> "u1", guild_id |-> "g1", memory_key |-> "name",
              memory_value |-> "Kai", context |-> None]}
    /\ memory_rows(user_memories, "u2", "g1", "name")
          = {[user_id |-> "u2", guild_id |-> "g1", memory_key |-> "name",
              memory_value |-> "Kyle", context |-> "intro"]}
    /\ memory_rows(user_memories, "u1", "g2", "name") # {}

\* C18: once the reply of L characters is sent: when L > 2000 there are
\* ceil(L / 2000) messages, each non-empty and of at most 2000 characters,
\* that follow one another in the content from its first character to its
\* last, the first a reply and the others plain sends; when 0 < L <= 2000
\* there is exactly one message, a reply
C18_ChunksCoverContent ==
    replying = "sent" =>
        /\ Len(outbox) = (IF reply_len > 2000 THEN (reply_len + 1999) \div 2000 ELSE 1)
        /\ \A i \in DOMAIN outbox :
              /\ outbox[i].to - outbox[i].from \in 1..2000
              /\ outbox[i].from = (IF i = 1 THEN 0 ELSE outbox[i - 1].to)
              /\ outbox[i].how = (IF i = 1 THEN "reply" ELSE "send")
        /\ outbox[Len(outbox)].to = reply_len

\* a reply of 4001 characters went out as a reply and two plain sends, the
\* last of one character
C18_Witness ==
    /\ replying = "sent"
    /\ reply_len = 4001
    /\ Len(outbox) = 3
    /\ outbox[3] = [how |-> "send", from |-> 4000, to |-> 4001]

\* the error texts a tool answers a missing argument with, and the text of
\* execute_tool's except clause for the ideas table's constraint
MissingArgumentTexts ==
    {<<"Error: Missing project_id">>, <<"Error: Missing project_id or label">>,
     <<"Error: Missing task_id">>, <<"Error: Missing idea_id">>,
     <<"Error executing tool: NOT NULL constraint failed: ideas.title">>}

\* C25: a call that omits an argument its tool's schema requires returns an
\* error text, and execute_tool has made no call to the store (no read, no
\* write) and changed no table; add_idea without a title included
C25_MissingArgumentNoStore ==
    tool_result.omitted =>
        /\ tool_result.outcome = "returned"
        /\ tool_result.text \in MissingArgumentTexts
        /\ ~ tool_result.touched
        /\ ~ tool_result.changed

\* C21: chat, given a response of null or empty content whose finish_reason
\* is not "length", returns the fixed fallback text after exactly one
\* transport request
C21_NullContentFallback ==
    (   llm_response.returned
     /\ llm_call.op = "chat"
     /\ UpstreamContent = <<>>
     /\ llm_call.data.finish_reason # "length")
    => /\ llm_response.content = <<Fallback>>
       /\ Len(llm_response.payloads) = 1

\* chat has returned the fallback for a null content with finish_reason "stop"
C21_Witness ==
    /\ llm_response.returned
    /\ llm_call.op = "chat"
    /\ llm_call.data = Upstream(Null, <<>>, "stop")
    /\ llm_response.content = <<Fallback>>
    /\ Len(llm_response.payloads) = 1

\* what chat has to show once the memory block is taken out and the
\* acknowledgement made
VisibleContent == ChatParsed(llm_call.data).content

\* C22: a call of chat makes one transport request or two; two exactly when
\* the first response's finish_reason is "length" and its visible content is
\* empty (once trimmed) after extraction and acknowledgement; the second
\* carries the system message and the last user message only, asks for
\* min(max_tokens, 256) tokens and has no tools; the result's content is the
\* retry's content when that is not empty (once trimmed), the fallback text
\* otherwise
C22_AtMostOneRetry ==
    (llm_response.returned /\ llm_call.op = "chat") =>
        LET posted == llm_response.payloads
            retried == llm_call.data.finish_reason = "length" /\ IsBlank(VisibleContent)
            retry_content == IF llm_call.retry.failed THEN <<>>
                             ELSE ContentOf(llm_call.retry.data)
        IN  /\ Len(posted) \in {1, 2}
            /\ Len(posted) = 2 <=> retried
            /\ retried =>
                  /\ Len(posted[2].messages) = 2
                  /\ posted[2].messages[1] = posted[1].messages[1]
                  /\ posted[2].messages[1].role = "system"
                  /\ posted[2].messages[2] = posted[1].messages[Len(posted[1].messages)]
                  /\ posted[2].messages[2].role = "user"
                  /\ posted[2].max_tokens =
                        (IF posted[1].max_tokens < 256 THEN posted[1].max_tokens ELSE 256)
                  /\ ~ posted[2].tools
                  /\ llm_response.content =
                        (IF Strip(retry_content) # <<>> THEN Strip(retry_content)
                         ELSE <<Fallback>>)

\* a call with tools and the default budget was retried with 256 tokens and
\* no tools, and the retry's text is the content
C22_Witness ==
    /\ llm_response.returned
    /\ llm_call.op = "chat"
    /\ Len(llm_response.payloads) = 2
    /\ llm_response.payloads[1].tools
    /\ llm_response.payloads[2].max_tokens = 256
    /\ llm_call.retry.data.content = <<" ", "hi", " ">>
    /\ llm_response.content = <<"hi">>

\* C23: chat and chat_with_tool_results alike: when memories were extracted
\* and no visible text is left, the content is the acknowledgement made of
\* the memories' keys, never the fallback text
C23_AcknowledgementNotFallback ==
    (   llm_response.returned
     /\ llm_response.memories_to_save # <<>>
     /\ IsBlank(ExtractMemories(UpstreamContent).clean))
    => /\ llm_response.content = Acknowledgement(llm_response.memories_to_save)
       /\ llm_response.content # <<Fallback>>

\* the channel locks a task holds
HeldChannels(t) == {c \in Channels : channel_locks[c] = t}

\* C30: no task holds two channel locks; a task takes a channel lock only
\* while it holds no lock at all, and the gateway lock only while it holds at
\* most one channel lock and not the gateway lock; and every task that waits
\* for a channel lock or for the gateway lock gets it, as long as every
\* transport request returns or fails
C30_NoDeadlock ==
    /\ [](\A t \in Tasks : Cardinality(HeldChannels(t)) <= 1)
    /\ [][\A t \in Tasks :
            /\ (\E c \in Channels : channel_locks'[c] = t /\ channel_locks[c] # t)
                  => (HeldChannels(t) = {} /\ api_lock # t)
            /\ (api_lock' = t /\ api_lock # t) => Cardinality(HeldChannels(t)) <= 1]_vars
    /\ \A t \in Tasks :
          /\ (pc[t] = "lock_wait") ~> (pc[t] = "load" /\ channel_locks[chan[t]] = t)
          /\ (pc[t] = "api_wait") ~> (pc[t] = "api_inflight" /\ api_lock = t)

\* a mention holds its channel's lock and waits for the gateway lock, which a
\* plan generation that holds no channel lock has
C30_Witness ==
    \E t, u \in Tasks :
        /\ kind[t] = "mention"
        /\ HeldChannels(t) = {chan[t]}
        /\ pc[t] = "api_wait"
        /\ kind[u] = "plan"
        /\ api_lock = u
        /\ HeldChannels(u) = {}

\* the requests of the turn that chat_with_tool_results made
ToolResultRequests == {n \in DOMAIN gateway_calls : n > 1}

\* the execute_tool calls of round r, in order
ExecutedIn(r) == SelectSeq(executed, LAMBDA e : e.round = r)

\* the i-th result of a round carries the id and the name of the i-th call
ResultsMatch(calls, results) ==
    \A i \in DOMAIN results :
        /\ i \in DOMAIN calls
        /\ results[i].tool_call_id = calls[i].id
        /\ results[i].name = calls[i].name

\* C24: in a tool round with k calls, all k calls are executed and k results
\* collected, the i-th carrying the id and name of the i-th call; a call with
\* malformed argument text is executed with empty arguments and a call that
\* fails in its tool yields an error text: no call aborts the round or turn
C24_RoundCollectsEveryResult ==
    /\ raised_at[TheTurn] # "tools"
    /\ pc[TheTurn] = "tools" =>
          /\ Len(current_tool_results) = next_call
          /\ ResultsMatch(response[TheTurn].tool_calls, current_tool_results)
    /\ \A n \in ToolResultRequests :
          LET calls == gateway_calls[n].messages[3].tool_calls
              done == ExecutedIn(n - 1)
          IN  /\ Len(done) = Len(calls)
              /\ Len(gateway_calls[n].messages) = 3 + Len(calls)
              /\ \A i \in DOMAIN calls :
                    /\ done[i].call = calls[i]
                    /\ gateway_calls[n].messages[3 + i].tool_call_id = calls[i].id
                    /\ gateway_calls[n].messages[3 + i].name = calls[i].name
    /\ \A i \in DOMAIN executed :
          /\ executed[i].call.arguments \notin DOMAIN JsonArguments
                => executed[i].arguments = NoArguments
          /\ executed[i].result # <<>>

\* C26: every chat_with_tool_results request of a turn carries the user
\* message, memories, persona instructions and sanitized history of the turn's
\* first request, then the tool calls of the response just before it and one
\* tool message per result of that round, in call order with matching ids
C26_ContinuationCarriesContext ==
    \A n \in ToolResultRequests :
        LET first == gateway_calls[1]
            request == gateway_calls[n]
            calls == answers[n - 1].tool_calls
            done == ExecutedIn(n - 1)
        IN  /\ first.messages[1] = SystemMessage(TurnPrompt(turn_context))
            /\ request.messages[1] = first.messages[1]
            /\ request.messages[2] = first.messages[2]
            /\ request.messages[3].role = "assistant"
            /\ request.messages[3].tool_calls = calls
            /\ calls # <<>>
            /\ Len(request.messages) = 3 + Len(calls)
            /\ Len(done) = Len(calls)
            /\ \A i \in DOMAIN calls :
                  /\ request.messages[3 + i].role = "tool"
                  /\ request.messages[3 + i].tool_call_id = calls[i].id
                  /\ request.messages[3 + i].name = calls[i].name
                  /\ request.messages[3 + i].content = done[i].result

\* the third request of a turn with a persona and a history, made after a
\* round of two calls that followed a round of one
C26_Witness ==
    /\ Len(gateway_calls) = 3
    /\ turn_context.conversation_context # None
    /\ Len(gateway_calls[2].messages) = 4
    /\ Len(gateway_calls[3].messages) = 5
    /\ gateway_calls[3].messages[4].content # gateway_calls[3].messages[5].content

\* a gateway call of the turn failed: the transport request of chat or of
\* chat_with_tool_results did
GatewayFailed(t) == transport_failed[t] /\ op[t] \in {"chat", "cwtr"}

\* the execute_tool calls of the turn that toggled task 1
Toggles ==
    {i \in DOMAIN executed :
        /\ executed[i].call.name = "toggle_task"
        /\ executed[i].arguments.task_id = 1
        /\ Head(executed[i].result) \in {"Task 'ship it' marked as completed",
                                         "Task 'ship it' marked as incomplete"}}

\* C27: when a gateway call of a handle_mention turn fails, at any round, no
\* history row and no memory is written for the turn, and every change the
\* tools of the rounds before made to the store stays
C27_GatewayFailureWritesNothing ==
    /\ [](GatewayFailed(TheTurn) =>
            /\ raised_at[TheTurn] = op[TheTurn]
            /\ TurnRows(TheTurn) = <<>>
            /\ user_memories = {}
            /\ \A k \in tasks : k.id = 1 => (k.is_done <=> Cardinality(Toggles) % 2 = 1))
    /\ [][GatewayFailed(TheTurn)' =>
            <<projects, tasks, ideas>>' = <<projects, tasks, ideas>>]_vars

\* chat_with_tool_results failed in the second round, after each round had
\* toggled the task, and the apology is out
C27_Witness ==
    /\ GatewayFailed(TheTurn)
    /\ op[TheTurn] = "cwtr"
    /\ pc[TheTurn] = "failed"
    /\ Cardinality(Toggles) = 2
    /\ Len(gateway_calls) = 3

\* the rows of user_memories once set_memory has been called for each entry
\* of mems in turn, on a table that had rows
RECURSIVE SavedRows(_, _)
SavedRows(mems, rows) ==
    IF mems = <<>> THEN rows
    ELSE SavedRows(Tail(mems),
                   set_memory(rows, User, Guild, MemoryKey(Head(mems)),
                              MemoryValue(Head(mems)), Head(mems).context))

\* the latest response the gateway returned to the turn
LastAnswer == answers[Len(answers)]

\* C28: the memories a handle_mention turn writes are the memories_to_save of
\* its last gateway response only: those of a response with tool calls that
\* another round followed are never written, those of a last response whose
\* content the round ceiling replaced are written
C28_OnlyLastResponseMemories ==
    /\ user_memories # {} =>
          /\ answers # <<>>
          /\ \E n \in 1..Len(LastAnswer.memories_to_save) :
                user_memories = SavedRows(SubSeq(LastAnswer.memories_to_save, 1, n), {})
    /\ pc[TheTurn] = "done" =>
          user_memories = SavedRows(LastAnswer.memories_to_save, {})
    /\ pc[TheTurn] = "done" /\ HitCeiling(LastAnswer, max_tool_rounds) =>
          /\ sent[TheTurn] = <<(<<TooManySteps>>)>>
          /\ user_memories = SavedRows(LastAnswer.memories_to_save, {})

\* a turn that ended after two rounds: both responses with tool calls proposed
\* the memory "city", the last response proposed "name", and only "name" is
\* in the table
C28_Witness ==
    /\ pc[TheTurn] = "done"
    /\ Len(answers) = 3
    /\ answers[1].memories_to_save # <<>>
    /\ answers[2].memories_to_save # <<>>
    /\ LastAnswer.memories_to_save # answers[1].memories_to_save
    /\ {r.memory_key : r \in user_memories} = {"name"}

C10_ExceptionAnswered ==
    \A t \in Mentions :
        /\ raised_at[t] # None =>
              /\ pc[t] \in {"except", "failed"}
              /\ pc[t] = "except" => sent[t] = <<>>
              /\ pc[t] = "failed" =>
                    /\ sent[t] = << <<Apology>> >>
                    /\ channel_locks[chan[t]] # t
        /\ pc[t] \in {"except", "failed"} => raised_at[t] # None

\* a turn whose gateway call raised in a later round has been answered
C10_Witness ==
    \E t \in Mentions :
        /\ pc[t] = "failed"
        /\ raised_at[t] = "cwtr"
        /\ requests[t] >= 2
        /\ sent[t] = << <<Apology>> >>

====
